---- MODULE Spec2Model ----
(***************************************************************************)
(* gensquashfs: the pseudo-file description parser (fstree_from_file.c),   *)
(* the glob option processing, and the build driver (mkfs.c main).         *)
(*                                                                         *)
(* A C string is a sequence of one-character strings; a char pointer into  *)
(* it is a 1-based index, the terminating NUL is read at index Len + 1,    *)
(* and the null pointer is index 0.                                        *)
(***************************************************************************)
EXTENDS Integers, Sequences, FiniteSets, TLC

\* ------------------------------------------------------------------ chars

NUL == "NUL"
DQ == "\""
SQ == "'"
BS == "\\"
TAB == "\t"

\* A `char *' that is NULL (as opposed to a pointer to an empty string).
NullStr == <<NUL>>

At(s, i) == IF i >= 1 /\ i <= Len(s) THEN s[i] ELSE NUL

IsSpace(c) == c \in {" ", "\t", "\n", "\r"}

Digits == <<"0", "1", "2", "3", "4", "5", "6", "7", "8", "9">>

IsDigit(c) == \E d \in 1..10 : Digits[d] = c

\* c - '0' for a digit c
DigitVal(c) == (CHOOSE d \in 1..10 : Digits[d] = c) - 1

\* A sqfs_u32 and the numbers around it are kept in two limbs, the value
\* being hi * 2^16 + lo with lo < 2^16: hi < 2^16 for a sqfs_u32.
Limb == 256 * 256

Big(hi, lo) == [hi |-> hi, lo |-> lo]

Small(n) == Big(0, n)

\* v * base + x, for base and x below 2^16
BigMulAdd(v, base, x) ==
    LET l == v.lo * base + x
    IN  Big(v.hi * base + l \div Limb, l % Limb)

\* v / d rounded down, for a d below 2^15
BigDiv(v, d) == Big(v.hi \div d, ((v.hi % d) * Limb + v.lo) \div d)

BigGT(a, b) == a.hi > b.hi \/ (a.hi = b.hi /\ a.lo > b.lo)

\* the value kept by a sqfs_u32: v modulo 2^32
ToU32(v) == Big(v.hi % Limb, v.lo)

\* 0xFFFFFFFF - x, for x <= 0xFFFF
U32MaxMinus(x) == Big(Limb - 1, Limb - 1 - x)

\* strncmp(s + i - 1, name, strlen(name)) == 0
HasPrefixAt(s, i, name) ==
    \A k \in 1..Len(name) : At(s, i + k - 1) = name[k]

\* the C string starting at index i
Suffix(s, i) == IF i > Len(s) THEN << >> ELSE SubSeq(s, i, Len(s))

RECURSIVE SkipSpaces(_, _)
\* while (isspace(*str)) ++str;
SkipSpaces(s, i) == IF IsSpace(At(s, i)) THEN SkipSpaces(s, i + 1) ELSE i

RECURSIVE SkipNonSpaces(_, _)
\* while (*str != '\0' && !isspace(*str)) ++str;
SkipNonSpaces(s, i) ==
    IF At(s, i) # NUL /\ ~IsSpace(At(s, i)) THEN SkipNonSpaces(s, i + 1) ELSE i

\* ------------------------------------------------- field readers

\* skip_space: NULL (0) unless at least one whitespace character is there
skip_space(s, i) == IF ~IsSpace(At(s, i)) THEN 0 ELSE SkipSpaces(s, i)

RECURSIVE ReadU32Loop(_, _, _, _)
ReadU32Loop(s, i, out, base) ==
    IF ~IsDigit(At(s, i)) THEN [p |-> i, out |-> out]
    ELSE LET x == DigitVal(At(s, i))
         IN  IF x >= base \/ BigGT(out, BigDiv(U32MaxMinus(x), base))
             THEN [p |-> 0, out |-> out]
             ELSE ReadU32Loop(s, i + 1, ToU32(BigMulAdd(out, base, x)), base)

\* read_u32: [p: the position after the digits, 0 for NULL; out: *out]
read_u32(s, i, base) ==
    IF ~IsDigit(At(s, i)) THEN [p |-> 0, out |-> Small(0)]
    ELSE ReadU32Loop(s, i, Small(0), base)

RECURSIVE ReadQuoted(_, _, _)
\* the loop of read_str's double-quote branch: copies up to the closing
\* quote, taking \" and \\ as the second character
ReadQuoted(s, i, acc) ==
    IF At(s, i) = NUL \/ At(s, i) = DQ THEN [p |-> i, path |-> acc]
    ELSE IF At(s, i) = BS /\ (At(s, i + 1) = DQ \/ At(s, i + 1) = BS)
         THEN ReadQuoted(s, i + 2, Append(acc, At(s, i + 1)))
         ELSE ReadQuoted(s, i + 1, Append(acc, At(s, i)))

\* read_str that knows no quoting at all
ReadStr_NoQuotes(s, i) ==
    LET e == SkipNonSpaces(s, i)
    IN  IF ~IsSpace(At(s, e)) THEN [p |-> 0, path |-> << >>]
        ELSE [p |-> SkipSpaces(s, e + 1), path |-> SubSeq(s, i, e - 1)]

\* read_str: [p: the position of the next field, 0 for NULL; path: *out]
read_str(s, i) ==
    IF At(s, i) = DQ
    THEN LET r == ReadQuoted(s, i + 1, << >>)
         IN  IF At(s, r.p) # DQ \/ ~IsSpace(At(s, r.p + 1))
             THEN [p |-> 0, path |-> << >>]
             ELSE [p |-> SkipSpaces(s, r.p + 1), path |-> r.path]
    ELSE LET e == SkipNonSpaces(s, i)
         IN  IF ~IsSpace(At(s, e)) THEN [p |-> 0, path |-> << >>]
             ELSE [p |-> SkipSpaces(s, e + 1), path |-> SubSeq(s, i, e - 1)]

RECURSIVE SkipToQuote(_, _, _)
\* while (str[len] != '\0' && str[len] != start) ++len;
SkipToQuote(s, i, start) ==
    IF At(s, i) # NUL /\ At(s, i) # start THEN SkipToQuote(s, i + 1, start) ELSE i

\* name_string_length(s + i - 1)
name_string_length(s, i) ==
    IF At(s, i) = DQ \/ At(s, i) = SQ
    THEN LET e == SkipToQuote(s, i + 1, At(s, i))
         IN  IF At(s, e) = At(s, i) THEN e + 1 - i ELSE e - i
    ELSE SkipNonSpaces(s, i) - i

\* quote_remove on a string of its own (the strndup'ed pattern)
quote_remove(str) ==
    IF At(str, 1) # SQ /\ At(str, 1) # DQ THEN str
    ELSE SubSeq(str, 2, SkipToQuote(str, 2, At(str, 1)) - 1)

\* ------------------------------------------------- path canonicalisation

RECURSIVE SplitPath(_, _, _, _)
\* the components of a path, split at every slash
SplitPath(s, i, cur, acc) ==
    IF i > Len(s) THEN Append(acc, cur)
    ELSE IF s[i] = "/" THEN SplitPath(s, i + 1, << >>, Append(acc, cur))
         ELSE SplitPath(s, i + 1, Append(cur, s[i]), acc)

RECURSIVE JoinPath(_)
JoinPath(cs) ==
    IF cs = << >> THEN << >>
    ELSE IF Len(cs) = 1 THEN cs[1]
         ELSE cs[1] \o <<"/">> \o JoinPath(Tail(cs))

\* canonicalize_name: empty and "." components are dropped (the root becomes
\* the empty string), a ".." component is an error
canonicalize_name(path) ==
    LET cs == SplitPath(path, 1, << >>, << >>)
        keep == SelectSeq(cs, LAMBDA c : c # << >> /\ c # <<".">>)
    IN  [ok |-> \A k \in 1..Len(cs) : cs[k] # <<".", ".">>,
         path |-> JoinPath(keep)]

\* ------------------------------------------------- the tree, as a log

\* struct stat, as far as the parser fills it in
Stat(type, perm, uid, gid) ==
    [type |-> type, perm |-> perm, uid |-> uid, gid |-> gid,
     rdev |-> <<0, 0>>]

NoStat == Stat("none", Small(0), Small(0), Small(0))

NoCfg ==
    [flags |-> {}, def_mode |-> Small(0), def_uid |-> Small(0), def_gid |-> Small(0),
     prefix |-> NullStr, name_pattern |-> NullStr, dir |-> NullStr]

\* one successful change of the tree
FsEntry(op, path, sb, extra, cfg) ==
    [op |-> op, path |-> path, sb |-> sb, extra |-> extra, cfg |-> cfg]

\* What the collaborators that are not part of the parser answer:
\*   add_ok    fstree_add_generic / fstree_add_hard_link return a node
\*   root      what fstree_get_node_by_path finds for a glob target
\*   canon_ok  canonicalize_name of the glob prefix succeeds
\*   alloc_ok  calloc of the joined scan path succeeds
\*   iter_ok   dir_tree_iterator_create returns an iterator
\*   scan_ok   fstree_from_dir succeeds
\*   null_len  strlen(NULL) (undefined): "crash" or the length it yields
EnvOk ==
    [add_ok |-> TRUE, root |-> "dir", canon_ok |-> TRUE, alloc_ok |-> TRUE,
     iter_ok |-> TRUE, scan_ok |-> TRUE, null_len |-> "crash"]

Envs ==
    { EnvOk,
      [EnvOk EXCEPT !.add_ok = FALSE],
      [EnvOk EXCEPT !.root = "none"],
      [EnvOk EXCEPT !.root = "notdir"],
      [EnvOk EXCEPT !.canon_ok = FALSE],
      [EnvOk EXCEPT !.alloc_ok = FALSE],
      [EnvOk EXCEPT !.iter_ok = FALSE],
      [EnvOk EXCEPT !.scan_ok = FALSE],
      [EnvOk EXCEPT !.null_len = "zero"] }

\* what a keyword's callback returns: ret is "0", "-1" or, when the process
\* is killed inside it, "SIGSEGV"
CbResult(ret, err, fs, cfg) == [ret |-> ret, err |-> err, fs |-> fs, cfg |-> cfg]

\* ------------------------------------------------- the entry handlers

add_generic(fs, path, sb, basepath, glob_flags, extra, env) ==
    IF ~env.add_ok THEN CbResult("-1", "strerror", fs, NoCfg)
    ELSE CbResult("0", "none", Append(fs, FsEntry("add", path, sb, extra, NoCfg)), NoCfg)

RECURSIVE ScanDigits(_, _, _)
ScanDigits(s, i, v) ==
    IF IsDigit(At(s, i)) THEN ScanDigits(s, i + 1, v * 10 + DigitVal(At(s, i)))
    ELSE [p |-> i, v |-> v]

\* one %u of sscanf: leading whitespace is skipped, then at least one digit
ScanUInt(s, i) ==
    LET b == SkipSpaces(s, i)
    IN  IF IsDigit(At(s, b)) THEN ScanDigits(s, b, 0) ELSE [p |-> 0, v |-> 0]

add_device(fs, path, sb, basepath, glob_flags, extra, env) ==
    LET c == At(extra, 1)
        maj == ScanUInt(extra, 2)
        min == IF maj.p = 0 THEN maj ELSE ScanUInt(extra, maj.p)
    IN  IF extra = NullStr \/ c = NUL \/ maj.p = 0 \/ min.p = 0
        THEN CbResult("-1", "expected '<c|b> major minor'", fs, NoCfg)
        ELSE IF c \in {"c", "C"}
        THEN add_generic(fs, path, [sb EXCEPT !.type = "S_IFCHR", !.rdev = <<maj.v, min.v>>],
                         basepath, glob_flags, NullStr, env)
        ELSE IF c \in {"b", "B"}
        THEN add_generic(fs, path, [sb EXCEPT !.type = "S_IFBLK", !.rdev = <<maj.v, min.v>>],
                         basepath, glob_flags, NullStr, env)
        ELSE CbResult("-1", "unknown device type", fs, NoCfg)

add_file(fs, path, basic, basepath, glob_flags, extra, env) ==
    add_generic(fs, path, basic, basepath, glob_flags,
                IF extra = NullStr \/ extra = << >> THEN path ELSE extra, env)

add_hard_link(fs, path, basic, basepath, glob_flags, extra, env) ==
    IF ~env.add_ok THEN CbResult("-1", "strerror", fs, NoCfg)
    ELSE CbResult("0", "none", Append(fs, FsEntry("link", path, NoStat, extra, NoCfg)), NoCfg)

\* ------------------------------------------------- glob entries

\* A flag word is the set of the flags set in it; 0 is the empty set.
glob_scan_flags ==
    << [name |-> <<"-", "t", "y", "p", "e", " ", "b">>,
        clear_flag |-> {"DIR_SCAN_NO_BLK"}, set_flag |-> {}],
       [name |-> <<"-", "t", "y", "p", "e", " ", "c">>,
        clear_flag |-> {"DIR_SCAN_NO_CHR"}, set_flag |-> {}],
       [name |-> <<"-", "t", "y", "p", "e", " ", "d">>,
        clear_flag |-> {"DIR_SCAN_NO_DIR"}, set_flag |-> {}],
       [name |-> <<"-", "t", "y", "p", "e", " ", "p">>,
        clear_flag |-> {"DIR_SCAN_NO_FIFO"}, set_flag |-> {}],
       [name |-> <<"-", "t", "y", "p", "e", " ", "f">>,
        clear_flag |-> {"DIR_SCAN_NO_FILE"}, set_flag |-> {}],
       [name |-> <<"-", "t", "y", "p", "e", " ", "l">>,
        clear_flag |-> {"DIR_SCAN_NO_SLINK"}, set_flag |-> {}],
       [name |-> <<"-", "t", "y", "p", "e", " ", "s">>,
        clear_flag |-> {"DIR_SCAN_NO_SOCK"}, set_flag |-> {}],
       [name |-> <<"-", "x", "d", "e", "v">>,
        clear_flag |-> {}, set_flag |-> {"DIR_SCAN_ONE_FILESYSTEM"}],
       [name |-> <<"-", "m", "o", "u", "n", "t">>,
        clear_flag |-> {}, set_flag |-> {"DIR_SCAN_ONE_FILESYSTEM"}],
       [name |-> <<"-", "k", "e", "e", "p", "t", "i", "m", "e">>,
        clear_flag |-> {}, set_flag |-> {"DIR_SCAN_KEEP_TIME"}],
       [name |-> <<"-", "n", "o", "n", "r", "e", "c", "u", "r", "s", "i", "v", "e">>,
        clear_flag |-> {}, set_flag |-> {"DIR_SCAN_NO_RECURSION"}] >>

\* DIR_SCAN_NO_BLK | DIR_SCAN_NO_CHR | ... | DIR_SCAN_NO_SOCK
all_flags ==
    {"DIR_SCAN_NO_BLK", "DIR_SCAN_NO_CHR", "DIR_SCAN_NO_DIR", "DIR_SCAN_NO_FIFO",
     "DIR_SCAN_NO_FILE", "DIR_SCAN_NO_SLINK", "DIR_SCAN_NO_SOCK"}

OptName == <<"-", "n", "a", "m", "e">>

OptPath == <<"-", "p", "a", "t", "h">>

\* the for loop over glob_scan_flags: the first entry whose name stands at
\* the position and is followed by whitespace (0: the loop ran to its end)
MatchScanFlag(extra, p) ==
    LET hit == {i \in 1..Len(glob_scan_flags) :
                    /\ HasPrefixAt(extra, p, glob_scan_flags[i].name)
                    /\ IsSpace(At(extra, p + Len(glob_scan_flags[i].name)))}
    IN  IF hit = {} THEN 0 ELSE CHOOSE i \in hit : \A j \in hit : i <= j

\* the flag update of a matched glob_scan_flags entry that forgets to
\* exclude every kind on the first -type
ApplyScanFlag_NoWhitelist(st, i, p) ==
    [st EXCEPT !.p = p,
               !.scan_flags = (st.scan_flags \ glob_scan_flags[i].clear_flag)
                                  \cup glob_scan_flags[i].set_flag]

\* the flag update of a matched glob_scan_flags entry; p is where extra
\* stands after the option
ApplyScanFlag(st, i, p) ==
    LET first == glob_scan_flags[i].clear_flag # {} /\ st.first_clear_flag
        flags == IF first THEN st.scan_flags \cup all_flags ELSE st.scan_flags
    IN  [st EXCEPT !.p = p,
                   !.first_clear_flag = IF first THEN FALSE ELSE @,
                   !.scan_flags = (flags \ glob_scan_flags[i].clear_flag)
                                      \cup glob_scan_flags[i].set_flag]

\* the -name / -path branch: the pattern is cut out and unquoted
TakePattern(st, extra, full_path) ==
    LET b == SkipSpaces(extra, st.p + 5)
        len == name_string_length(extra, b)
    IN  [st EXCEPT !.p = SkipSpaces(extra, b + len),
                   !.name_pattern = quote_remove(SubSeq(extra, b, b + len - 1)),
                   !.glob_flags = IF full_path
                                  THEN @ \cup {"DIR_SCAN_MATCH_FULL_PATH"} ELSE @]

RECURSIVE GlobOptions(_, _)
\* the option loop of glob_files. st: p (extra), scan_flags,
\* first_clear_flag, glob_flags, name_pattern, err
GlobOptions(extra, st) ==
    IF At(extra, st.p) = NUL THEN st
    ELSE LET i == MatchScanFlag(extra, st.p)
         IN  IF i # 0
             THEN GlobOptions(extra,
                      ApplyScanFlag(st, i,
                          SkipSpaces(extra, st.p + Len(glob_scan_flags[i].name))))
             ELSE IF HasPrefixAt(extra, st.p, OptName) /\ IsSpace(At(extra, st.p + 5))
             THEN GlobOptions(extra, TakePattern(st, extra, FALSE))
             ELSE IF HasPrefixAt(extra, st.p, OptPath) /\ IsSpace(At(extra, st.p + 5))
             THEN GlobOptions(extra, TakePattern(st, extra, TRUE))
             ELSE IF At(extra, st.p) = "-"
             THEN IF At(extra, st.p + 1) = "-" /\ IsSpace(At(extra, st.p + 2))
                  THEN [st EXCEPT !.p = SkipSpaces(extra, st.p + 2)]
                  ELSE [st EXCEPT !.err = "unknown option"]
             ELSE st

\* the scan of glob_files, once the options are read: `extra' is what is
\* left of the line (NullStr for NULL)
GlobScan(fs, basic, basepath, cfg, extra, env) ==
    IF basepath # NullStr /\ extra = NullStr /\ env.null_len = "crash"
    THEN CbResult("SIGSEGV", "strlen(NULL)", fs, NoCfg)
    ELSE LET rest == IF extra = NullStr THEN << >> ELSE extra
             dir == IF basepath = NullStr
                    THEN (IF extra = NullStr THEN <<".">> ELSE extra)
                    ELSE basepath \o <<"/">> \o rest
             c == [cfg EXCEPT !.dir = dir]
         IN  IF basepath # NullStr /\ ~env.alloc_ok
             THEN CbResult("-1", "allocation failure", fs, NoCfg)
             ELSE IF ~env.iter_ok THEN CbResult("-1", "none", fs, NoCfg)
             ELSE IF ~env.scan_ok THEN CbResult("-1", "none", fs, c)
             ELSE CbResult("0", "none",
                           Append(fs, FsEntry("scan", cfg.prefix, basic, rest, c)), c)

glob_files(fs, path, basic, basepath, glob_flags, extra, env) ==
    IF env.root = "none" THEN CbResult("-1", "strerror", fs, NoCfg)
    ELSE IF env.root = "notdir" THEN CbResult("-1", "is not a directoy", fs, NoCfg)
    ELSE IF ~env.canon_ok THEN CbResult("-1", "error cannonicalizing", fs, NoCfg)
    ELSE LET st0 == [p |-> 1, scan_flags |-> {}, first_clear_flag |-> TRUE,
                     glob_flags |-> glob_flags, name_pattern |-> NullStr,
                     err |-> "none"]
             st == IF extra = NullStr THEN st0 ELSE GlobOptions(extra, st0)
             left == IF extra = NullStr \/ At(extra, st.p) = NUL
                     THEN NullStr ELSE Suffix(extra, st.p)
             cfg == [flags |-> st.scan_flags \cup st.glob_flags,
                     def_mode |-> basic.perm, def_uid |-> basic.uid,
                     def_gid |-> basic.gid, prefix |-> path,
                     name_pattern |-> st.name_pattern, dir |-> NullStr]
         IN  IF st.err # "none" THEN CbResult("-1", st.err, fs, NoCfg)
             ELSE GlobScan(fs, basic, basepath, cfg, left, env)

\* ------------------------------------------------- one line

\* mode "none" is the 0 of the table: the callback sets the file type itself
file_list_hooks ==
    << [keyword |-> <<"d", "i", "r">>, name |-> "dir", mode |-> "S_IFDIR",
        need_extra |-> FALSE, is_glob |-> FALSE, allow_root |-> TRUE, callback |-> "add_generic"],
       [keyword |-> <<"s", "l", "i", "n", "k">>, name |-> "slink", mode |-> "S_IFLNK",
        need_extra |-> TRUE, is_glob |-> FALSE, allow_root |-> FALSE, callback |-> "add_generic"],
       [keyword |-> <<"l", "i", "n", "k">>, name |-> "link", mode |-> "none",
        need_extra |-> TRUE, is_glob |-> FALSE, allow_root |-> FALSE, callback |-> "add_hard_link"],
       [keyword |-> <<"n", "o", "d">>, name |-> "nod", mode |-> "none",
        need_extra |-> TRUE, is_glob |-> FALSE, allow_root |-> FALSE, callback |-> "add_device"],
       [keyword |-> <<"p", "i", "p", "e">>, name |-> "pipe", mode |-> "S_IFIFO",
        need_extra |-> FALSE, is_glob |-> FALSE, allow_root |-> FALSE, callback |-> "add_generic"],
       [keyword |-> <<"s", "o", "c", "k">>, name |-> "sock", mode |-> "S_IFSOCK",
        need_extra |-> FALSE, is_glob |-> FALSE, allow_root |-> FALSE, callback |-> "add_generic"],
       [keyword |-> <<"f", "i", "l", "e">>, name |-> "file", mode |-> "S_IFREG",
        need_extra |-> FALSE, is_glob |-> FALSE, allow_root |-> FALSE, callback |-> "add_file"],
       [keyword |-> <<"g", "l", "o", "b">>, name |-> "glob", mode |-> "none",
        need_extra |-> FALSE, is_glob |-> TRUE, allow_root |-> TRUE, callback |-> "glob_files"] >>

NUM_HOOKS == Len(file_list_hooks)

\* the keyword loop of handle_line: the first hook whose keyword starts the
\* line and is followed by whitespace (0: cb stays NULL)
FindHook(line) ==
    LET hit == {i \in 1..NUM_HOOKS :
                    /\ HasPrefixAt(line, 1, file_list_hooks[i].keyword)
                    /\ IsSpace(At(line, 1 + Len(file_list_hooks[i].keyword)))}
    IN  IF hit = {} THEN 0 ELSE CHOOSE i \in hit : \A j \in hit : i <= j

\* cb->callback(fs, filename, line_num, path, &sb, basepath, glob_flags, extra)
Callback(cb, fs, path, sb, basepath, glob_flags, extra, env) ==
    CASE cb.callback = "add_generic" ->
             add_generic(fs, path, sb, basepath, glob_flags, extra, env)
      [] cb.callback = "add_hard_link" ->
             add_hard_link(fs, path, sb, basepath, glob_flags, extra, env)
      [] cb.callback = "add_device" ->
             add_device(fs, path, sb, basepath, glob_flags, extra, env)
      [] cb.callback = "add_file" ->
             add_file(fs, path, sb, basepath, glob_flags, extra, env)
      [] cb.callback = "glob_files" ->
             glob_files(fs, path, sb, basepath, glob_flags, extra, env)

\* What handle_line did: ret, the message, whether the callback was called
\* and with which arguments, the tree afterwards, and the positions of the
\* mode, uid and gid fields in the line (0: not reached).
LineResult(ret, err, fs) ==
    [ret |-> ret, err |-> err, called |-> FALSE, kw |-> "none",
     path |-> << >>, rawpath |-> << >>, sb |-> NoStat, glob_flags |-> {},
     extra |-> NullStr, fs |-> fs, cfg |-> NoCfg,
     at_mode |-> 0, at_uid |-> 0, at_gid |-> 0]

\* the field reader that takes `*' for every kind of entry
NumField_StarForAll(line, p, is_glob, base) ==
    IF At(line, p) = "*" THEN [p |-> p + 1, out |-> Small(0), keep |-> TRUE]
    ELSE LET r == read_u32(line, p, base)
         IN  [p |-> r.p, out |-> r.out, keep |-> FALSE]

\* mode, uid or gid: `*' for a glob entry, a number in `base' otherwise.
\* [p: the position after the field, 0 for NULL; out; keep: `*' was taken]
NumField(line, p, is_glob, base) ==
    IF is_glob /\ At(line, p) = "*" THEN [p |-> p + 1, out |-> Small(0), keep |-> TRUE]
    ELSE LET r == read_u32(line, p, base)
         IN  [p |-> r.p, out |-> r.out, keep |-> FALSE]

\* the end of handle_line, from the gid field on; it does not tell
\* characters glued onto the gid from the end of the line
HandleTail(fs, line, basepath, env, cb, path, rawpath, m, u, g, pm, pu, pg) ==
    LET e == skip_space(line, g.p)
        extra == IF e # 0 /\ At(line, e) # NUL THEN Suffix(line, e) ELSE NullStr
        glob_flags == (IF m.keep THEN {"DIR_SCAN_KEEP_MODE"} ELSE {})
                      \cup (IF u.keep THEN {"DIR_SCAN_KEEP_UID"} ELSE {})
                      \cup (IF g.keep THEN {"DIR_SCAN_KEEP_GID"} ELSE {})
        sb == Stat(cb.mode, m.out, u.out, g.out)
        r == Callback(cb, fs, path, sb, basepath, glob_flags, extra, env)
    IN  IF cb.need_extra /\ extra = NullStr
        THEN [LineResult("-1", "missing argument", fs) EXCEPT !.kw = cb.name]
        ELSE [ret |-> r.ret, err |-> r.err, called |-> TRUE, kw |-> cb.name,
              path |-> path, rawpath |-> rawpath, sb |-> sb,
              glob_flags |-> glob_flags, extra |-> extra, fs |-> r.fs,
              cfg |-> r.cfg, at_mode |-> pm, at_uid |-> pu, at_gid |-> pg]

\* handle_line from the mode field on
HandleFields(fs, line, basepath, env, cb, path, rawpath, pm) ==
    LET m == NumField(line, pm, cb.is_glob, 8)
        pu == IF m.p = 0 THEN 0 ELSE skip_space(line, m.p)
        u == NumField(line, pu, cb.is_glob, 10)
        pg == IF pu = 0 \/ u.p = 0 THEN 0 ELSE skip_space(line, u.p)
        g == NumField(line, pg, cb.is_glob, 10)
        fail(msg) == [LineResult("-1", msg, fs) EXCEPT !.kw = cb.name]
    IN  IF m.p = 0 \/ (~m.keep /\ BigGT(m.out, Small(4095)))
        THEN fail("mode must be an octal number <= 07777")
        ELSE IF pu = 0 THEN fail("error in entry description")
        ELSE IF u.p = 0 THEN fail("uid & gid must be decimal numbers < 2^32")
        ELSE IF pg = 0 THEN fail("error in entry description")
        ELSE IF g.p = 0 THEN fail("uid & gid must be decimal numbers < 2^32")
        ELSE HandleTail(fs, line, basepath, env, cb, path, rawpath, m, u, g, pm, pu, pg)

handle_line(fs, line, basepath, env) ==
    LET i == FindHook(line)
        cb == file_list_hooks[i]
        p1 == skip_space(line, 1 + Len(cb.keyword))
        s == read_str(line, p1)
        c == canonicalize_name(s.path)
    IN  IF i = 0 THEN LineResult("-1", "unknown entry type", fs)
        ELSE IF s.p = 0 \/ ~c.ok
        THEN [LineResult("-1", "error in entry description", fs) EXCEPT !.kw = cb.name]
        ELSE IF c.path = << >> /\ ~cb.allow_root
        THEN [LineResult("-1", "cannot use / as argument", fs) EXCEPT !.kw = cb.name]
        ELSE HandleFields(fs, line, basepath, env, cb, c.path, s.path, s.p)

\* ------------------------------------------------- state

VARIABLES
    \* one line through handle_line
    line,       \* the line handed to handle_line
    comp,       \* how the line was put together (not read by the parser)
    basepath,   \* opt->packdir as handed down, NullStr for NULL
    res,        \* what handle_line did
    lpc,        \* "parse" before the call, "done" after it
    \* fstree_from_file_stream
    file,       \* the lines of the description file
    fp,         \* how many lines of it istream_get_line has consumed
    line_num,
    handled,    \* the lines handed to handle_line so far, with its result
    fs,         \* the tree (the log of its changes)
    sret,       \* "running", or what fstree_from_file_stream returned: "0", "-1"
    \* main
    pc, opt, calls, status, cleanup, exitcode, tree,
    \* the input stream, pack_files
    strm,       \* the istream_t: its buffer and what its source still holds
    out,        \* what was copied out of the stream, in the order it was
    io,         \* the calls of istream_read, istream_skip, istream_splice
    pk,         \* pack_files: where it stands and what it has done
    \* the block processor
    bp

lineVars == <<line, comp, basepath, res, lpc>>

streamVars == <<file, fp, line_num, handled, fs, sret>>

mainVars == <<pc, opt, calls, status, cleanup, exitcode, tree>>

ioVars == <<strm, out, io, pk>>

bpVars == <<bp>>

vars == <<lineVars, streamVars, mainVars, ioVars, bpVars>>

\* the values of the stream, of pack_files and of the block processor
\* while another part of the program is looked at
NoStrm ==
    [chunks |-> << >>, base |-> Small(0), buffer_used |-> Small(0),
     buffer_offset |-> Small(0), fail_at |-> 0, refills |-> 0]

\* the ostream_t: what was appended to it (or copied to the caller's
\* memory), as ranges of the input; which append fails; the flushes
NoOut == [data |-> << >>, fail_at |-> 0, appends |-> 0, flushes |-> 0]

NoIo == [pc |-> "idle"]

NoPk == [pc |-> "idle"]

NoBp == [pc |-> "idle"]

\* ------------------------------------------------- the lines tried

KwTokens ==
    { <<"d", "i", "r">>,
      <<"s", "l", "i", "n", "k">>,
      <<"l", "i", "n", "k">>,
      <<"n", "o", "d">>,
      <<"p", "i", "p", "e">>,
      <<"s", "o", "c", "k">>,
      <<"f", "i", "l", "e">>,
      <<"g", "l", "o", "b">>,
      <<"f", "o", "o">>,
      <<"d", "i", "r", "x">> }

Seps == { <<" ">>, <<TAB, " ">>, << >> }

PathTokens ==
    { <<"/", "a">>,
      <<"/">>,
      <<"a", "/", ".", ".", "/", "b">>,
      <<DQ, "a", " ", "b", DQ>>,
      <<DQ, "a", " ", BS, DQ, "b", DQ>>,
      <<DQ, "a", BS, BS, "b", DQ>>,
      <<DQ, "a", BS, "b", DQ>>,
      <<SQ, "a", " ", "b", SQ>>,
      <<SQ, "a", SQ>>,
      <<DQ, "a", " ", "b">>,
      <<DQ, "a", DQ, "x">>,
      <<"a", DQ, "b">> }

ModeTokens ==
    { <<"0", "7", "5", "5">>,
      <<"7", "7", "7", "7">>,
      <<"1", "0", "0", "0", "0">>,
      <<"8">>,
      <<"0", "7", "8", "9">>,
      <<"*">>,
      <<"0", "7", "x">> }

UidTokens ==
    { <<"0">>,
      <<"1", "0", "0", "0">>,
      <<"4", "2", "9", "4", "9", "6", "7", "2", "9", "5">>,
      <<"4", "2", "9", "4", "9", "6", "7", "2", "9", "6">>,
      <<"9", "9", "9", "9", "9", "9", "9", "9", "9", "9", "9">>,
      <<"*">>,
      <<"5", "x">>,
      <<"-", "1">> }

GidTokens ==
    { <<"0">>,
      <<"1", "0", "0", "0">>,
      <<"4", "2", "9", "4", "9", "6", "7", "2", "9", "5">>,
      <<"4", "2", "9", "4", "9", "6", "7", "2", "9", "6">>,
      <<"4", "2", "9", "4", "9", "6", "7", "2", "9", "6", "0">>,
      <<"*">>,
      <<"0", "a", "b", "c">>,
      <<"*", "a", "b", "c">>,
      <<"x">> }

Tails ==
    { << >>,
      <<" ", "x">>,
      <<"a", "b", "c">>,
      <<" ">>,
      <<" ", "c", " ", "1", " ", "2">> }

Sp == <<" ">>

\* kw s1 path s2 mode s3 uid s4 gid tail
Build(c) ==
    c.kw \o c.s1 \o c.path \o c.s2 \o c.mode \o c.s3 \o c.uid \o c.s4 \o c.gid \o c.tail

Comp(kw, s1, path, s2, mode, s3, uid, s4, gid, tail) ==
    [kw |-> kw, s1 |-> s1, path |-> path, s2 |-> s2, mode |-> mode, s3 |-> s3,
     uid |-> uid, s4 |-> s4, gid |-> gid, tail |-> tail, opts |-> << >>,
     dashes |-> FALSE, dir |-> << >>, trail |-> << >>]

\* every keyword, with and without the whitespace after it
KwComps ==
    {Comp(kw, s1, path, Sp, <<"0", "7", "5", "5">>, Sp, <<"0">>, Sp, <<"0">>, tail) :
        kw \in KwTokens, s1 \in Seps, path \in {<<"/", "a">>, <<"/">>},
        tail \in {<< >>, <<" ", "x">>, <<" ", "c", " ", "1", " ", "2">>}}

\* every separator present, doubled or missing
SepComps ==
    {Comp(kw, Sp, <<"/", "a">>, s2, <<"0", "7", "5", "5">>, s3, <<"1">>, s4, <<"2">>, tail) :
        kw \in {<<"d", "i", "r">>, <<"g", "l", "o", "b">>}, s2 \in Seps, s3 \in Seps, s4 \in Seps, tail \in Tails}

\* the numeric fields, one varied at a time
NumComps ==
    {Comp(kw, Sp, <<"/", "a">>, Sp, f[1], Sp, f[2], Sp, f[3], tail) :
        kw \in {<<"d", "i", "r">>, <<"g", "l", "o", "b">>},
        f \in ({<<m, <<"0">>, <<"0">>>> : m \in ModeTokens}
               \cup {<<<<"0", "7", "5", "5">>, u, <<"0">>>> : u \in UidTokens}
               \cup {<<<<"0", "7", "5", "5">>, <<"0">>, g>> : g \in GidTokens}),
        tail \in {<< >>, <<" ", "x">>, <<"a", "b", "c">>}}

\* every mix of `*' and numbers in the three fields, for a glob entry and
\* for others
StarComps ==
    {Comp(kw, Sp, <<"/", "a">>, Sp, m, Sp, u, Sp, g, tail) :
        kw \in {file_list_hooks[i].keyword : i \in 1..NUM_HOOKS},
        m \in {<<"*">>, <<"0", "6", "4", "4">>},
        u \in {<<"*">>, <<"1", "0", "0", "0">>},
        g \in {<<"*">>, <<"1", "0", "0">>},
        tail \in {<< >>, <<" ", "s", "r", "c">>}}

\* the path field
PathComps ==
    {Comp(kw, Sp, path, s2, <<"0", "7", "5", "5">>, Sp, <<"0">>, Sp, <<"0">>, tail) :
        kw \in {<<"d", "i", "r">>, <<"f", "i", "l", "e">>, <<"g", "l", "o", "b">>}, path \in PathTokens, s2 \in {Sp, << >>},
        tail \in {<< >>, <<" ", "x">>}}

LineComps == KwComps \cup SepComps \cup NumComps \cup StarComps \cup PathComps

\* ------------------------------------------------- the glob lines tried

\* the longest option list tried
MaxOpts == 2

TypeOpts ==
    { <<"-", "t", "y", "p", "e", " ", "b">>,
      <<"-", "t", "y", "p", "e", " ", "c">>,
      <<"-", "t", "y", "p", "e", " ", "d">>,
      <<"-", "t", "y", "p", "e", " ", "p">>,
      <<"-", "t", "y", "p", "e", " ", "f">>,
      <<"-", "t", "y", "p", "e", " ", "l">>,
      <<"-", "t", "y", "p", "e", " ", "s">> }

FlagOpts ==
    { <<"-", "x", "d", "e", "v">>,
      <<"-", "k", "e", "e", "p", "t", "i", "m", "e">> }

\* the predicates tried alone only
LoneOpts ==
    { <<"-", "m", "o", "u", "n", "t">>,
      <<"-", "n", "o", "n", "r", "e", "c", "u", "r", "s", "i", "v", "e">>,
      <<"-", "n", "a", "m", "e", " ", "*", ".", "c">> }

PatternOpts ==
    { <<"-", "n", "a", "m", "e", " ", DQ, "a", " ", "b", DQ>>,
      <<"-", "p", "a", "t", "h", " ", SQ, "x", " ", "y", SQ>> }

\* the predicates the glob filter knows
GoodOpts == TypeOpts \cup FlagOpts \cup PatternOpts

\* tokens that start with `-' and are no predicate
BadOpts ==
    { <<"-", "f", "o", "o">>,
      <<"-", "t", "y", "p", "e", "d">>,
      <<"-", "t", "y", "p", "e", " ", "x">>,
      <<"-">> }

RECURSIVE JoinOpts(_)
\* the option tokens, each followed by one blank
JoinOpts(os) == IF os = << >> THEN << >> ELSE os[1] \o Sp \o JoinOpts(Tail(os))

\* the end of a string cut off
DropLast(s) == IF s = << >> THEN s ELSE SubSeq(s, 1, Len(s) - 1)

\* the extra field: the options, `--' if dashes, the base directory if any,
\* and trailing whitespace if any; DropLast takes the blank after the last
\* token away again
GlobExtra(opts, dashes, dir, trail) ==
    DropLast(JoinOpts(opts \o (IF dashes THEN << <<"-", "-">> >> ELSE << >>)
                           \o (IF dir = << >> THEN << >> ELSE <<dir>>)))
        \o trail

GlobComp(mode, uid, gid, opts, dashes, dir, trail) ==
    LET extra == GlobExtra(opts, dashes, dir, trail)
    IN  [Comp(<<"g", "l", "o", "b">>, Sp, <<"/", "d">>, Sp, mode, Sp, uid, Sp, gid,
              IF extra = << >> THEN << >> ELSE Sp \o extra)
         EXCEPT !.opts = opts, !.dashes = dashes, !.dir = dir, !.trail = trail]

OptLists(S) == UNION {[1..n -> S] : n \in 0..MaxOpts}

\* `--', base directory, trailing blank
GlobEnds ==
    { <<FALSE, << >>, << >>>>, <<FALSE, << >>, Sp>>,
      <<TRUE, << >>, << >>>>, <<TRUE, << >>, Sp>>,
      <<FALSE, <<"s", "r", "c">>, << >>>>, <<TRUE, <<"s", "r", "c">>, << >>>> }

\* two -type predicates with another predicate in between
MixedOpts ==
    {<<t1, o, t2>> :
        t1 \in { <<"-", "t", "y", "p", "e", " ", "d">>, <<"-", "t", "y", "p", "e", " ", "f">> },
        o \in { <<"-", "x", "d", "e", "v">>,
                <<"-", "n", "a", "m", "e", " ", DQ, "a", " ", "b", DQ>> },
        t2 \in TypeOpts}

\* glob lines whose extra field follows the filter grammar
GoodGlobComps ==
    {GlobComp(<<"*">>, <<"1">>, <<"*">>, opts, e[1], e[2], e[3]) :
        opts \in OptLists(GoodOpts) \cup {<<o>> : o \in LoneOpts} \cup MixedOpts,
        e \in GlobEnds}

\* glob lines with a token that is no predicate, alone or after a predicate
BadGlobComps ==
    {GlobComp(<<"0", "7", "5", "5">>, <<"*">>, <<"2">>, g \o <<b>>, FALSE, dir, << >>) :
        g \in {<< >>, << <<"-", "x", "d", "e", "v">> >>}, b \in BadOpts, dir \in {<< >>, <<"s", "r", "c">>}}

GlobComps == GoodGlobComps \cup BadGlobComps

\* ------------------------------------------------- one line: the actions

BasePaths == {NullStr, <<"p">>}

\* the answers tried for a glob line
GlobEnvs ==
    { EnvOk,
      [EnvOk EXCEPT !.root = "notdir"],
      [EnvOk EXCEPT !.iter_ok = FALSE],
      [EnvOk EXCEPT !.null_len = "zero"] }

Pending == LineResult("pending", "none", << >>)

NoComp == Comp(<< >>, << >>, << >>, << >>, << >>, << >>, << >>, << >>, << >>, << >>)

\* handle_line on the line, on an empty tree
HandleLine ==
    /\ lpc = "parse"
    /\ \E env \in Envs : res' = handle_line(<< >>, line, basepath, env)
    /\ lpc' = "done"
    /\ UNCHANGED <<line, comp, basepath, streamVars, mainVars, ioVars, bpVars>>

\* handle_line on a glob line, on an empty tree
HandleGlobLine ==
    /\ lpc = "glob"
    /\ \E env \in GlobEnvs : res' = handle_line(<< >>, line, basepath, env)
    /\ lpc' = "done"
    /\ UNCHANGED <<line, comp, basepath, streamVars, mainVars, ioVars, bpVars>>

\* ------------------------------------------------- the description file

\* the longest description file tried
MaxLines == 3

\* lines of a description: entries that parse, a comment, an empty line, an
\* indented entry, and entries that do not parse
StreamLines ==
    { <<"d", "i", "r", " ", "/", "a", " ", "0", "7", "5", "5", " ", "0", " ", "0">>,
      <<"f", "i", "l", "e", " ", "/", "a", "/", "b", " ", "0", "6", "4", "4", " ", "1", " ", "1", " ", "/", "e", "t", "c", "/", "h", "o", "s", "t", "n", "a", "m", "e">>,
      <<"#", " ", "c", "o", "m", "m", "e", "n", "t">>,
      << >>,
      <<" ", TAB, "p", "i", "p", "e", " ", "/", "p", " ", "0", "6", "0", "0", " ", "0", " ", "0">>,
      <<"#", "d", "i", "r", " ", "/", "c", " ", "0", "7", "5", "5", " ", "0", " ", "0">>,
      <<"f", "o", "o", " ", "/", "a", " ", "0", "7", "5", "5", " ", "0", " ", "0">>,
      <<"d", "i", "r", " ", "/", "a", " ", "9", " ", "0", " ", "0">> }

Files == UNION {[1..n -> StreamLines] : n \in 0..MaxLines}

\* the tree collaborator either takes every entry or refuses
StreamEnvs == {EnvOk, [EnvOk EXCEPT !.add_ok = FALSE]}

RECURSIVE NextLineAt(_, _)
\* the first line after the k consumed ones that is not empty once its
\* leading whitespace is gone (Len + 1: there is none)
NextLineAt(f, k) ==
    IF k >= Len(f) THEN Len(f) + 1
    ELSE IF At(f[k + 1], SkipSpaces(f[k + 1], 1)) = NUL THEN NextLineAt(f, k + 1)
         ELSE k + 1

\* istream_get_line(fp, &line, &line_num, ISTREAM_LINE_LTRIM |
\* ISTREAM_LINE_SKIP_EMPTY): ret > 0 at the end of the input, else the next
\* non-empty line without its leading whitespace; line_num counts the lines
\* skipped
istream_get_line(f, k, num) ==
    LET n == NextLineAt(f, k)
    IN  IF n > Len(f) THEN [ret |-> 1, line |-> << >>, fp |-> Len(f), line_num |-> num]
        ELSE [ret |-> 0, line |-> Suffix(f[n], SkipSpaces(f[n], 1)), fp |-> n,
              line_num |-> num + (n - k - 1)]

\* a loop turn that frees the line and goes on whatever handle_line said
LoopTurn_IgnoreFailure(g, r) ==
    [fp |-> g.fp,
     line_num |-> g.line_num + 1,
     handled |-> Append(handled, [line |-> g.line, ret |-> r.ret]),
     fs |-> r.fs,
     sret |-> "running"]

\* what one turn of the loop leaves behind: g is what istream_get_line
\* gave, r what handle_line did with the line
LoopTurn(g, r) ==
    [fp |-> g.fp,
     line_num |-> IF r.ret = "0" THEN g.line_num + 1 ELSE g.line_num,
     handled |-> Append(handled, [line |-> g.line, ret |-> r.ret]),
     fs |-> r.fs,
     sret |-> IF r.ret = "0" THEN "running" ELSE "-1"]

\* istream_get_line fails: fstree_from_file_stream returns -1
StreamReadError ==
    /\ sret = "running"
    /\ sret' = "-1"
    /\ UNCHANGED <<file, fp, line_num, handled, fs, lineVars, mainVars, ioVars, bpVars>>

\* istream_get_line reports the end of the input: the loop is left, 0
StreamEnd ==
    /\ sret = "running"
    /\ istream_get_line(file, fp, line_num).ret > 0
    /\ fp' = Len(file)
    /\ sret' = "0"
    /\ UNCHANGED <<file, line_num, handled, fs, lineVars, mainVars, ioVars, bpVars>>

\* a comment line: freed, counted, not handled
StreamComment ==
    /\ sret = "running"
    /\ LET g == istream_get_line(file, fp, line_num)
       IN  /\ g.ret = 0
           /\ g.line[1] = "#"
           /\ fp' = g.fp
           /\ line_num' = g.line_num + 1
    /\ UNCHANGED <<file, handled, fs, sret, lineVars, mainVars, ioVars, bpVars>>

\* any other line goes to handle_line
StreamHandle ==
    /\ sret = "running"
    /\ LET g == istream_get_line(file, fp, line_num)
       IN  /\ g.ret = 0
           /\ g.line[1] # "#"
           /\ \E env \in StreamEnvs :
                LET t == LoopTurn(g, handle_line(fs, g.line, NullStr, env))
                IN  /\ fp' = t.fp
                    /\ line_num' = t.line_num
                    /\ handled' = t.handled
                    /\ fs' = t.fs
                    /\ sret' = t.sret
    /\ UNCHANGED <<file, lineVars, mainVars, ioVars, bpVars>>

\* ------------------------------------------------- the tree of nodes

\* the number of nodes of the trees tried
NumNodes == 3

Ids == {0, 1}

\* A tree is the sequence of its nodes, the root first; a node: isdir
\* (S_ISDIR(mode)), children (data.children and the next chain, for a
\* directory), uid, gid, mode (the permission bits).
NoTree == << >>

ChildrenOf(par, n) ==
    LET kids == {c \in DOMAIN par : par[c] = n}
        RECURSIVE Up(_, _)
        Up(c, acc) == IF c > NumNodes THEN acc
                      ELSE Up(c + 1, IF c \in kids THEN Append(acc, c) ELSE acc)
    IN  Up(2, << >>)

MkTree(par, dirs, uids) ==
    [n \in 1..NumNodes |->
        [isdir |-> n \in dirs, children |-> ChildrenOf(par, n),
         uid |-> uids[n], gid |-> 10 + n, mode |-> 420 + n]]

\* every shape on NumNodes nodes: a node's parent comes before it and is a
\* directory; the root is a directory
Trees ==
    {MkTree(par, dirs \cup {1}, uids) :
        par \in {q \in [2..NumNodes -> 1..NumNodes] : \A c \in 2..NumNodes : q[c] < c},
        dirs \in SUBSET (2..NumNodes),
        uids \in [1..NumNodes -> Ids]}

\* the trees the tree builders can leave behind: only a directory has
\* children
BuiltTrees ==
    {t \in Trees : \A n \in 1..NumNodes : t[n].children # << >> => t[n].isdir}

\* override_owner_dfs that sets the owner of the node and does not descend
OverrideOwnerRootOnly(o, n, t) ==
    [t EXCEPT ![n].uid = IF o.force_uid THEN o.force_uid_value ELSE @,
              ![n].gid = IF o.force_gid THEN o.force_gid_value ELSE @]

RECURSIVE OverrideOwnerDfs(_, _, _)
RECURSIVE OverrideOwnerChildren(_, _, _)
\* the for loop of override_owner_dfs over the children still to visit
OverrideOwnerChildren(o, cs, t) ==
    IF cs = << >> THEN t
    ELSE OverrideOwnerChildren(o, Tail(cs), OverrideOwnerDfs(o, Head(cs), t))

OverrideOwnerDfs(o, n, t) ==
    LET t1 == [t EXCEPT ![n].uid = IF o.force_uid THEN o.force_uid_value ELSE @,
                        ![n].gid = IF o.force_gid THEN o.force_gid_value ELSE @]
    IN  IF t1[n].isdir THEN OverrideOwnerChildren(o, t1[n].children, t1) ELSE t1

override_owner_dfs(o, n, t) == OverrideOwnerDfs(o, n, t)

\* ------------------------------------------------- main

\* the options main reads: selinux, xattr_file, sortfile and infile say
\* whether the option is given (the pointer is not NULL)
Options ==
    [selinux : BOOLEAN, xattr_file : BOOLEAN, sortfile : BOOLEAN,
     infile : BOOLEAN, force_uid : BOOLEAN, force_gid : BOOLEAN,
     force_uid_value : {1}, force_gid_value : {7}]

NoOptions ==
    [selinux |-> FALSE, xattr_file |-> FALSE, sortfile |-> FALSE,
     infile |-> FALSE, force_uid |-> FALSE, force_gid |-> FALSE,
     force_uid_value |-> 1, force_gid_value |-> 7]

Call(fn, ok) == [fn |-> fn, ok |-> ok]

\* a stage whose failure is not looked at
Stage_ContinueOnFailure(here, given, fn, next) ==
    /\ pc = here
    /\ IF given
       THEN \E ok \in BOOLEAN : calls' = Append(calls, Call(fn, ok))
       ELSE calls' = calls
    /\ pc' = next

\* a stage that can fail: when `given', fn is called and main goes to
\* `next' if it succeeded and to `out' if not; else the stage is skipped
Stage(here, given, fn, next) ==
    /\ pc = here
    /\ IF given
       THEN \E ok \in BOOLEAN :
               /\ calls' = Append(calls, Call(fn, ok))
               /\ pc' = IF ok THEN next ELSE "out"
       ELSE /\ calls' = calls
            /\ pc' = next

\* sqfs_writer_init: on failure main returns at once, without cleanup
WriterInit ==
    /\ pc = "writer_init"
    /\ \E ok \in BOOLEAN :
          /\ calls' = Append(calls, Call("sqfs_writer_init", ok))
          /\ pc' = IF ok THEN "selinux" ELSE "exit"
          /\ exitcode' = IF ok THEN exitcode ELSE "EXIT_FAILURE"
    /\ UNCHANGED <<opt, status, cleanup, tree, lineVars, streamVars, ioVars, bpVars>>

OpenSelinux ==
    /\ Stage("selinux", opt.selinux, "selinux_open_context_file", "xattr_map")
    /\ UNCHANGED <<opt, status, cleanup, exitcode, tree, lineVars, streamVars, ioVars, bpVars>>

OpenXattrMap ==
    /\ Stage("xattr_map", opt.xattr_file, "xattr_open_map_file", "sortfile")
    /\ UNCHANGED <<opt, status, cleanup, exitcode, tree, lineVars, streamVars, ioVars, bpVars>>

OpenSortFile ==
    /\ Stage("sortfile", opt.sortfile, "sqfs_istream_open_file", "tree")
    /\ UNCHANGED <<opt, status, cleanup, exitcode, tree, lineVars, streamVars, ioVars, bpVars>>

\* without infile: dir_tree_iterator_create, then fstree_from_dir
ScanDirectory ==
    /\ pc = "tree"
    /\ ~opt.infile
    /\ \E made \in BOOLEAN, ok \in BOOLEAN :
          /\ calls' = IF made
                      THEN calls \o <<Call("dir_tree_iterator_create", TRUE),
                                      Call("fstree_from_dir", ok)>>
                      ELSE Append(calls, Call("dir_tree_iterator_create", FALSE))
          /\ IF made /\ ok
             THEN pc' = "owner" /\ tree' \in BuiltTrees
             ELSE pc' = "out" /\ tree' = tree
    /\ UNCHANGED <<opt, status, cleanup, exitcode, lineVars, streamVars, ioVars, bpVars>>

\* with infile: read_fstree
ReadFstree ==
    /\ pc = "tree"
    /\ opt.infile
    /\ \E ok \in BOOLEAN :
          /\ calls' = Append(calls, Call("read_fstree", ok))
          /\ IF ok
             THEN pc' = "owner" /\ tree' \in BuiltTrees
             ELSE pc' = "out" /\ tree' = tree
    /\ UNCHANGED <<opt, status, cleanup, exitcode, lineVars, streamVars, ioVars, bpVars>>

\* if (opt.force_uid || opt.force_gid) override_owner_dfs(&opt, sqfs.fs.root)
OverrideOwner ==
    /\ pc = "owner"
    /\ IF opt.force_uid \/ opt.force_gid
       THEN /\ tree' = override_owner_dfs(opt, 1, tree)
            /\ calls' = Append(calls, Call("override_owner_dfs", TRUE))
       ELSE UNCHANGED <<tree, calls>>
    /\ pc' = "post_process"
    /\ UNCHANGED <<opt, status, cleanup, exitcode, lineVars, streamVars, ioVars, bpVars>>

PostProcess ==
    /\ Stage("post_process", TRUE, "fstree_post_process", "xattrs")
    /\ UNCHANGED <<opt, status, cleanup, exitcode, tree, lineVars, streamVars, ioVars, bpVars>>

XattrsFromDir ==
    /\ Stage("xattrs", ~opt.infile, "xattrs_from_dir", "sort")
    /\ UNCHANGED <<opt, status, cleanup, exitcode, tree, lineVars, streamVars, ioVars, bpVars>>

\* sortfile is not NULL exactly if the option was given (and opened)
SortFiles ==
    /\ Stage("sort", opt.sortfile, "fstree_sort_files", "pack")
    /\ UNCHANGED <<opt, status, cleanup, exitcode, tree, lineVars, streamVars, ioVars, bpVars>>

PackFiles ==
    /\ Stage("pack", TRUE, "pack_files", "finish")
    /\ UNCHANGED <<opt, status, cleanup, exitcode, tree, lineVars, streamVars, ioVars, bpVars>>

\* sqfs_writer_finish with status = EXIT_SUCCESS set before its result is
\* looked at
WriterFinish_StatusEarly ==
    /\ pc = "finish"
    /\ \E ok \in BOOLEAN : calls' = Append(calls, Call("sqfs_writer_finish", ok))
    /\ pc' = "out"
    /\ status' = "EXIT_SUCCESS"
    /\ UNCHANGED <<opt, cleanup, exitcode, tree, lineVars, streamVars, ioVars, bpVars>>

\* sqfs_writer_finish; after it status = EXIT_SUCCESS
WriterFinish ==
    /\ Stage("finish", TRUE, "sqfs_writer_finish", "out")
    /\ status' = IF calls'[Len(calls')].ok THEN "EXIT_SUCCESS" ELSE status
    /\ UNCHANGED <<opt, cleanup, exitcode, tree, lineVars, streamVars, ioVars, bpVars>>

\* out: sqfs_writer_cleanup(&sqfs, status); ...; return status
Out ==
    /\ pc = "out"
    /\ cleanup' = Append(cleanup, status)
    /\ exitcode' = status
    /\ pc' = "exit"
    /\ UNCHANGED <<opt, calls, status, tree, lineVars, streamVars, ioVars, bpVars>>

\* ------------------------------------------------- specifications

NextLine == HandleLine

NextGlob == HandleGlobLine

NextStream == StreamReadError \/ StreamEnd \/ StreamComment \/ StreamHandle

NextMain ==
    \/ WriterInit \/ OpenSelinux \/ OpenXattrMap \/ OpenSortFile
    \/ ScanDirectory \/ ReadFstree \/ OverrideOwner \/ PostProcess
    \/ XattrsFromDir \/ SortFiles \/ PackFiles \/ WriterFinish \/ Out

\* Of the three parts of the state (one line, the description file, main)
\* a specification runs one; the other two stay as they start.

\* handle_line on one line of the description
InitOneLine ==
    /\ comp \in LineComps
    /\ line = Build(comp)
    /\ basepath \in BasePaths
    /\ res = Pending
    /\ lpc = "parse"
    /\ file = << >> /\ fp = 0 /\ line_num = 0 /\ handled = << >>
    /\ fs = << >> /\ sret = "idle"
    /\ pc = "idle" /\ opt = NoOptions /\ calls = << >>
    /\ status = "EXIT_FAILURE" /\ cleanup = << >> /\ exitcode = "none"
    /\ tree = NoTree
    /\ strm = NoStrm /\ out = NoOut /\ io = NoIo /\ pk = NoPk /\ bp = NoBp

SpecLine == InitOneLine /\ [][NextLine]_vars

\* handle_line on one glob line
InitGlobLine ==
    /\ comp \in GlobComps
    /\ line = Build(comp)
    /\ basepath \in BasePaths
    /\ res = Pending
    /\ lpc = "glob"
    /\ file = << >> /\ fp = 0 /\ line_num = 0 /\ handled = << >>
    /\ fs = << >> /\ sret = "idle"
    /\ pc = "idle" /\ opt = NoOptions /\ calls = << >>
    /\ status = "EXIT_FAILURE" /\ cleanup = << >> /\ exitcode = "none"
    /\ tree = NoTree
    /\ strm = NoStrm /\ out = NoOut /\ io = NoIo /\ pk = NoPk /\ bp = NoBp

SpecGlob == InitGlobLine /\ [][NextGlob]_vars

\* fstree_from_file_stream on one description file
InitStream ==
    /\ file \in Files
    /\ fp = 0
    /\ line_num = 1
    /\ handled = << >>
    /\ fs = << >>
    /\ sret = "running"
    /\ line = << >> /\ comp = NoComp /\ basepath = NullStr /\ res = Pending
    /\ lpc = "idle"
    /\ pc = "idle" /\ opt = NoOptions /\ calls = << >>
    /\ status = "EXIT_FAILURE" /\ cleanup = << >> /\ exitcode = "none"
    /\ tree = NoTree
    /\ strm = NoStrm /\ out = NoOut /\ io = NoIo /\ pk = NoPk /\ bp = NoBp

SpecStream == InitStream /\ [][NextStream]_vars

\* main, after process_command_line: status = EXIT_FAILURE, nothing opened
InitMain ==
    /\ pc = "writer_init"
    /\ opt \in Options
    /\ calls = << >>
    /\ status = "EXIT_FAILURE"
    /\ cleanup = << >>
    /\ exitcode = "none"
    /\ tree = NoTree
    /\ strm = NoStrm /\ out = NoOut /\ io = NoIo /\ pk = NoPk /\ bp = NoBp
    /\ line = << >> /\ comp = NoComp /\ basepath = NullStr /\ res = Pending
    /\ lpc = "idle"
    /\ file = << >> /\ fp = 0 /\ line_num = 0 /\ handled = << >>
    /\ fs = << >> /\ sret = "idle"

SpecMain == InitMain /\ [][NextMain]_vars

Init == InitMain

Next == NextMain

Spec == SpecMain

\* ------------------------------------------------- what the claims speak of

\* the whitespace-delimited field that starts at index i
FieldAt(l, i) == SubSeq(l, i, SkipNonSpaces(l, i) - 1)

RECURSIVE DigitRunEnd(_, _)
DigitRunEnd(l, i) == IF IsDigit(At(l, i)) THEN DigitRunEnd(l, i + 1) ELSE i

\* the digits that start at index i
DigitsAt(l, i) == SubSeq(l, i, DigitRunEnd(l, i) - 1)

\* a numeral of the base: at least one digit, every digit below the base
IsNumeral(tok, base) ==
    /\ tok # << >>
    /\ \A k \in 1..Len(tok) : IsDigit(tok[k]) /\ DigitVal(tok[k]) < base

RECURSIVE NumValueFrom(_, _, _, _)
NumValueFrom(tok, k, base, acc) ==
    IF k > Len(tok) THEN acc
    ELSE NumValueFrom(tok, k + 1, base, BigMulAdd(acc, base, DigitVal(tok[k])))

\* the mathematical value of a numeral (not reduced modulo anything)
NumValue(tok, base) == NumValueFrom(tok, 1, base, Small(0))

FitsU32(v) == v.hi < Limb

Keywords == {file_list_hooks[i].keyword : i \in 1..NUM_HOOKS}

Glob == <<"g", "l", "o", "b">>

Star == <<"*">>

RECURSIVE ClosingQuote(_, _)
\* the index of the double quote that closes a quoted path whose content
\* starts at i, \" and \\ being escapes (0: there is none)
ClosingQuote(l, i) ==
    IF At(l, i) = NUL THEN 0
    ELSE IF At(l, i) = DQ THEN i
    ELSE IF At(l, i) = BS /\ At(l, i + 1) \in {DQ, BS} THEN ClosingQuote(l, i + 2)
    ELSE ClosingQuote(l, i + 1)

RECURSIVE Unescape(_)
\* the content of a double-quoted path, taken literally: \" is ", \\ is \
Unescape(t) ==
    IF t = << >> THEN << >>
    ELSE IF Len(t) >= 2 /\ t[1] = BS /\ t[2] \in {DQ, BS}
         THEN <<t[2]>> \o Unescape(SubSeq(t, 3, Len(t)))
         ELSE <<t[1]>> \o Unescape(Tail(t))

\* where the path field of a line ends: after the closing quote of a quoted
\* path, at the next whitespace otherwise (0: the quote is not closed)
PathEnd(l, i) ==
    IF At(l, i) = DQ
    THEN (IF ClosingQuote(l, i + 1) = 0 THEN 0 ELSE ClosingQuote(l, i + 1) + 1)
    ELSE SkipNonSpaces(l, i)

\* mode, uid or gid as the grammar has it: a numeral, or `*' for a glob
IsNumField(tok, base, kw) == IsNumeral(tok, base) \/ (kw = Glob /\ tok = Star)

\* the whole line has the form <kind> <path> <mode> <uid> <gid> [extra]:
\* fields separated by whitespace, the gid followed by the end of the line
\* or by whitespace
WellFormedLine(l) ==
    LET kw == FieldAt(l, 1)
        p1 == SkipSpaces(l, Len(kw) + 1)
        e1 == PathEnd(l, p1)
        p2 == SkipSpaces(l, e1)
        p3 == SkipSpaces(l, p2 + Len(FieldAt(l, p2)))
        p4 == SkipSpaces(l, p3 + Len(FieldAt(l, p3)))
    IN  /\ kw \in Keywords
        /\ e1 > p1 /\ IsSpace(At(l, e1))
        /\ IsNumField(FieldAt(l, p2), 8, kw)
        /\ IsNumField(FieldAt(l, p3), 10, kw)
        /\ IsNumField(FieldAt(l, p4), 10, kw)

KeepFlags == {"DIR_SCAN_KEEP_MODE", "DIR_SCAN_KEEP_UID", "DIR_SCAN_KEEP_GID"}

\* ------------------------------------------------- C1

\* a line as istream_get_line hands it out: without leading whitespace
LTrim(l) == Suffix(l, SkipSpaces(l, 1))

\* the entry lines among the first k lines of the file, in input order:
\* not empty, not a comment
EntryLines(f, k) ==
    LET trimmed == [i \in 1..k |-> LTrim(f[i])]
    IN  SelectSeq(trimmed, LAMBDA l : l # << >> /\ l[1] # "#")

HandledLines == [k \in 1..Len(handled) |-> handled[k].line]

\* C1: fstree_from_file_stream hands the entry lines to handle_line in input
\* order; a line that handle_line fails on is the last one handled and makes
\* the function return -1; it returns 0 only when the end of the input was
\* reached and every entry line of the file was handled with success.
C1_HaltsOnFirstError ==
    /\ HandledLines = EntryLines(file, fp)
    /\ \A k \in 1..Len(handled) :
          handled[k].ret # "0" => k = Len(handled) /\ sret = "-1"
    /\ sret = "0" =>
          /\ fp = Len(file)
          /\ HandledLines = EntryLines(file, Len(file))
          /\ \A k \in 1..Len(handled) : handled[k].ret = "0"

\* a line failed after one that was handled, with an entry line still unread
C1_Witness ==
    /\ sret = "-1"
    /\ Len(handled) = 2
    /\ handled[1].ret = "0"
    /\ handled[2].ret = "-1"
    /\ Len(EntryLines(file, Len(file))) > Len(handled)

\* ------------------------------------------------- C2

\* C2: handle_line calls the handler of a line only if the whole line has
\* the form <kind> <path> <mode> <uid> <gid> [extra]; every other line is
\* rejected, no handler is called and the tree stays as it was.
C2_OnlyWellFormedForwarded ==
    lpc = "done" =>
        \/ WellFormedLine(line)
        \/ ~res.called /\ res.ret = "-1" /\ res.fs = << >>

\* ------------------------------------------------- C3

\* the value of a numeral is within the range of its field
InRange(tok, base) ==
    IF base = 8 THEN ~BigGT(NumValue(tok, 8), Small(4095))
    ELSE FitsU32(NumValue(tok, 10))

\* the field that stands at index i of the line is a number of the base
\* that is within range, and v is its value
CheckedField(l, i, base, v) ==
    LET tok == FieldAt(l, i)
    IN  IsNumeral(tok, base) /\ InRange(tok, base) /\ v = NumValue(tok, base)

\* the field at index i is the `*' of a glob entry
StarField(l, i, kw) == kw = "glob" /\ FieldAt(l, i) = Star

\* C3: a line reaches its handler only if its mode is an octal numeral with
\* a value <= 07777 and its uid and gid are decimal numerals with a value
\* < 2^32 (`*' aside, which a glob entry may give instead), and the values
\* the handler gets are the mathematical values of these numerals.
C3_NumericFieldsChecked ==
    lpc = "done" /\ res.called =>
        /\ \/ StarField(line, res.at_mode, res.kw)
           \/ CheckedField(line, res.at_mode, 8, res.sb.perm)
        /\ \/ StarField(line, res.at_uid, res.kw)
           \/ CheckedField(line, res.at_uid, 10, res.sb.uid)
        /\ \/ StarField(line, res.at_gid, res.kw)
           \/ CheckedField(line, res.at_gid, 10, res.sb.gid)

\* the same for the mode and the uid alone, which handle_line requires to be
\* followed by whitespace
C3_ModeUidChecked ==
    lpc = "done" /\ res.called =>
        /\ \/ StarField(line, res.at_mode, res.kw)
           \/ CheckedField(line, res.at_mode, 8, res.sb.perm)
        /\ \/ StarField(line, res.at_uid, res.kw)
           \/ CheckedField(line, res.at_uid, 10, res.sb.uid)

\* read_u32 by itself: the digits it has read are digits of the base, their
\* value is below 2^32 and is the value stored
C3_ReadU32Exact ==
    lpc = "done" /\ res.called /\ At(line, res.at_gid) # "*" =>
        LET tok == DigitsAt(line, res.at_gid)
        IN  /\ IsNumeral(tok, 10)
            /\ FitsU32(NumValue(tok, 10))
            /\ res.sb.gid = NumValue(tok, 10)

\* ------------------------------------------------- C4

\* the option tokens of the line are predicates of the glob filter
OptsInGrammar(c) ==
    \A k \in 1..Len(c.opts) : c.opts[k] \in GoodOpts \cup LoneOpts

\* the scan was not begun: no iterator was asked for, nothing was added
NoScan(r) == r.cfg.dir = NullStr /\ r.fs = << >>

\* C4: a glob entry whose extra field is a sequence of predicates of the
\* filter, then `--' if wanted, then a base directory if wanted, never gets
\* the "unknown option" error, the last token of the line being a predicate
\* or `--' included; with any other token that starts with `-' the entry is
\* an error and no scan is done.
C4_OptionsAcceptedAnywhere ==
    lpc = "done" /\ comp.kw = Glob =>
        IF OptsInGrammar(comp)
        THEN res.err # "unknown option"
        ELSE res.ret = "-1" /\ NoScan(res)

\* the line ends in `--' or in a predicate that takes no pattern
EndsInFlag(c) ==
    /\ c.dir = << >> /\ c.trail = << >>
    /\ \/ c.dashes
       \/ c.opts # << >> /\ c.opts[Len(c.opts)] \in TypeOpts \cup FlagOpts \cup
              { <<"-", "m", "o", "u", "n", "t">>,
                <<"-", "n", "o", "n", "r", "e", "c", "u", "r", "s", "i", "v", "e">> }

\* what glob_files does: `--' and the predicates of glob_scan_flags are
\* known only with whitespace after them, so the one that ends the line is
\* the "unknown option"
C4_KnownOnlyBeforeWhitespace ==
    lpc = "done" /\ comp.kw = Glob /\ OptsInGrammar(comp) /\ res.called
                 /\ res.err # "is not a directoy" =>
        (res.err = "unknown option" <=> EndsInFlag(comp))

\* the other tokens that start with `-' are rejected and nothing is scanned
C4_OthersRejected ==
    lpc = "done" /\ comp.kw = Glob /\ ~OptsInGrammar(comp) =>
        res.ret = "-1" /\ NoScan(res)

\* ------------------------------------------------- C5

\* the DIR_SCAN_NO_* flag of the kind that -type names
KindFlag(o) ==
    CASE o = <<"-", "t", "y", "p", "e", " ", "b">> -> "DIR_SCAN_NO_BLK"
      [] o = <<"-", "t", "y", "p", "e", " ", "c">> -> "DIR_SCAN_NO_CHR"
      [] o = <<"-", "t", "y", "p", "e", " ", "d">> -> "DIR_SCAN_NO_DIR"
      [] o = <<"-", "t", "y", "p", "e", " ", "p">> -> "DIR_SCAN_NO_FIFO"
      [] o = <<"-", "t", "y", "p", "e", " ", "f">> -> "DIR_SCAN_NO_FILE"
      [] o = <<"-", "t", "y", "p", "e", " ", "l">> -> "DIR_SCAN_NO_SLINK"
      [] o = <<"-", "t", "y", "p", "e", " ", "s">> -> "DIR_SCAN_NO_SOCK"

NoKindFlags ==
    {"DIR_SCAN_NO_BLK", "DIR_SCAN_NO_CHR", "DIR_SCAN_NO_DIR", "DIR_SCAN_NO_FIFO",
     "DIR_SCAN_NO_FILE", "DIR_SCAN_NO_SLINK", "DIR_SCAN_NO_SOCK"}

\* the kinds the -type predicates of the line name, as their NO flags
NamedKinds(c) ==
    {KindFlag(c.opts[k]) : k \in {j \in 1..Len(c.opts) : c.opts[j] \in TypeOpts}}

\* the options were read and the scan was set up
ScanSetUp == lpc = "done" /\ comp.kw = Glob /\ res.called /\ res.cfg.dir # NullStr

\* C5: the -type predicates are a whitelist: when the options of a glob
\* entry are read, the kinds that are not excluded from the scan are the
\* kinds named by -type, in whatever order, however often and with whatever
\* else in between; without any -type no kind is excluded.
C5_TypeIsWhitelist ==
    ScanSetUp =>
        NoKindFlags \ res.cfg.flags =
            (IF NamedKinds(comp) = {} THEN NoKindFlags ELSE NamedKinds(comp))

\* two kinds named, another predicate between them, and the scan set up
C5_Witness ==
    /\ ScanSetUp
    /\ Len(comp.opts) = 3
    /\ comp.opts[2] \notin TypeOpts
    /\ NamedKinds(comp) = {"DIR_SCAN_NO_DIR", "DIR_SCAN_NO_SOCK"}
    /\ res.cfg.flags \cap NoKindFlags =
           NoKindFlags \ {"DIR_SCAN_NO_DIR", "DIR_SCAN_NO_SOCK"}
    /\ "DIR_SCAN_ONE_FILESYSTEM" \in res.cfg.flags

\* ------------------------------------------------- C6

\* where the path field of an entry line starts
PathStart(l) == SkipSpaces(l, Len(FieldAt(l, 1)) + 1)

\* the line starts with a keyword of the table and whitespace
HasKeyword(l) == FieldAt(l, 1) \in Keywords /\ IsSpace(At(l, Len(FieldAt(l, 1)) + 1))

\* the index of the quote that closes a path opened with the quote q before
\* index i (0: there is none)
Closing(l, i, q) ==
    IF q = DQ THEN ClosingQuote(l, i)
    ELSE IF At(l, SkipToQuote(l, i, q)) = q THEN SkipToQuote(l, i, q) ELSE 0

\* what stands between the quotes, taken literally
Content(t, q) == IF q = DQ THEN Unescape(t) ELSE t

\* a path field that starts with the quote q is read as a quoted path: up to
\* the closing quote, whitespace included, the quotes taken away and the
\* mode expected after it; without a closing quote that is followed by
\* whitespace the line is an error
QuotedPathLiteral(q) ==
    lpc = "done" /\ HasKeyword(line) /\ At(line, PathStart(line)) = q =>
        LET b == PathStart(line)
            c == Closing(line, b + 1, q)
        IN  IF c = 0 \/ ~IsSpace(At(line, c + 1))
            THEN ~res.called /\ res.ret = "-1"
            ELSE res.called =>
                    /\ res.rawpath = Content(SubSeq(line, b + 1, c - 1), q)
                    /\ res.at_mode = SkipSpaces(line, c + 1)

\* C6 as the claim has it: a path in double quotes or in single quotes is
\* taken literally and loses its quotes; one that is not closed, or whose
\* closing quote is not followed by whitespace, is rejected.
C6_QuotedPathLiteral == QuotedPathLiteral(DQ) /\ QuotedPathLiteral(SQ)

\* C6: a path in double quotes is taken literally: whitespace inside does
\* not end the field, the quotes are taken away, \" stands for " and \\ for
\* \ and everything else is kept; a double-quoted path that is not closed,
\* or whose closing quote is not followed by whitespace, is rejected. A
\* single quote is a character like any other: the path field that starts
\* with one ends at the next whitespace and keeps its quotes.
C6_DoubleQuotedPathLiteral ==
    /\ QuotedPathLiteral(DQ)
    /\ lpc = "done" /\ HasKeyword(line) /\ At(line, PathStart(line)) = SQ /\ res.called =>
          /\ res.rawpath = FieldAt(line, PathStart(line))
          /\ res.at_mode = SkipSpaces(line, PathStart(line) + Len(res.rawpath))

\* a double-quoted path with a blank and an escaped quote inside has reached
\* the handler
C6_Witness ==
    /\ lpc = "done" /\ res.called /\ res.ret = "0"
    /\ At(line, PathStart(line)) = DQ
    /\ \E i, j \in 1..Len(res.rawpath) : res.rawpath[i] = " " /\ res.rawpath[j] = DQ
    /\ Len(res.rawpath) < Closing(line, PathStart(line) + 1, DQ) - PathStart(line) - 1

\* ------------------------------------------------- C7

\* the field at index i of a glob line that has reached glob_files: given
\* as `*' it sets the keep flag; given as a number it sets no keep flag and
\* the number v is what the handler gets and, once the scan is set up, the
\* default def of the scan
StarOrNumber(i, base, flag, v, def) ==
    LET tok == FieldAt(line, i)
    IN  /\ tok = Star =>
              /\ flag \in res.glob_flags
              /\ res.cfg.dir # NullStr => flag \in res.cfg.flags
        /\ IsNumeral(tok, base) =>
              /\ flag \notin res.glob_flags
              /\ v = NumValue(tok, base)
              /\ res.cfg.dir # NullStr => flag \notin res.cfg.flags /\ def = v

\* an entry of another kind than glob, with `*' as mode, uid or gid
StarInOtherKind(c) ==
    /\ c.kw \in Keywords \ {Glob}
    /\ c.mode = Star \/ c.uid = Star \/ c.gid = Star

\* C7: `*' as mode, uid or gid is taken for a glob entry only: there it sets
\* the keep flag of its field and no other, and a number sets no keep flag
\* and is passed on as the default; an entry of any other kind with `*' in
\* one of the three fields is an error and reaches no handler.
C7_StarOnlyForGlob ==
    lpc = "done" =>
        /\ res.called /\ res.kw = "glob" =>
              /\ res.glob_flags \subseteq KeepFlags
              /\ StarOrNumber(res.at_mode, 8, "DIR_SCAN_KEEP_MODE", res.sb.perm, res.cfg.def_mode)
              /\ StarOrNumber(res.at_uid, 10, "DIR_SCAN_KEEP_UID", res.sb.uid, res.cfg.def_uid)
              /\ StarOrNumber(res.at_gid, 10, "DIR_SCAN_KEEP_GID", res.sb.gid, res.cfg.def_gid)
        /\ res.called /\ res.kw # "glob" => res.glob_flags = {}
        /\ StarInOtherKind(comp) => ~res.called /\ res.ret = "-1" /\ res.fs = << >>

\* a glob entry with `*' as mode and gid and a number as uid has set up its
\* scan
C7_Witness ==
    /\ lpc = "done" /\ res.called /\ res.kw = "glob" /\ res.ret = "0"
    /\ FieldAt(line, res.at_mode) = Star
    /\ FieldAt(line, res.at_uid) = <<"1", "0", "0", "0">>
    /\ FieldAt(line, res.at_gid) = Star
    /\ res.cfg.dir # NullStr
    /\ res.cfg.def_uid = Small(1000)
    /\ res.cfg.flags \cap KeepFlags = {"DIR_SCAN_KEEP_MODE", "DIR_SCAN_KEEP_GID"}

\* ------------------------------------------------- C8

\* the tree with the forced owner on every node and nothing else changed
Forced(o, t) ==
    [n \in DOMAIN t |->
        [t[n] EXCEPT !.uid = IF o.force_uid THEN o.force_uid_value ELSE @,
                     !.gid = IF o.force_gid THEN o.force_gid_value ELSE @]]

\* the nodes that can be reached from node n over the children of
\* directories
RECURSIVE Reachable(_, _)
Reachable(t, n) ==
    {n} \cup UNION {Reachable(t, t[n].children[k]) : k \in 1..Len(t[n].children)}

LastCall(c) == c[Len(c)]

\* C8: the step of main between tree construction and post-processing
\* leaves the tree with the forced uid (gid) on every node that can be
\* reached from the root, when force_uid (force_gid) is set, and with its
\* uid (gid) as it was when not; nothing else of a node changes; and
\* fstree_post_process is called only after this step, on that tree.
C8_OwnerForcedBeforePostProcess ==
    [][/\ pc = "owner" =>
             /\ pc' = "post_process"
             /\ Reachable(tree, 1) = DOMAIN tree
             /\ tree' = Forced(opt, tree)
       /\ calls' # calls /\ LastCall(calls').fn = "fstree_post_process" =>
             /\ pc = "post_process"
             /\ tree' = tree
             /\ tree = Forced(opt, tree)]_vars

\* the owner step has forced the gid, and not the uid, of a chain of three
\* nodes
C8_Witness ==
    /\ pc = "post_process"
    /\ opt.force_gid /\ ~opt.force_uid
    /\ tree[1].children = <<2>> /\ tree[2].children = <<3>>
    /\ \A n \in 1..3 : tree[n].gid = opt.force_gid_value /\ tree[n].mode = 420 + n
    /\ tree[2].uid # tree[3].uid
    /\ LastCall(calls).fn = "override_owner_dfs"

\* ------------------------------------------------- C9

\* the place of a call in the order of main
StageRank(fn) ==
    CASE fn = "sqfs_writer_init" -> 0
      [] fn = "selinux_open_context_file" -> 1
      [] fn = "xattr_open_map_file" -> 2
      [] fn = "sqfs_istream_open_file" -> 3
      [] fn = "dir_tree_iterator_create" -> 4
      [] fn \in {"fstree_from_dir", "read_fstree"} -> 5
      [] fn = "override_owner_dfs" -> 6
      [] fn = "fstree_post_process" -> 7
      [] fn = "xattrs_from_dir" -> 8
      [] fn = "fstree_sort_files" -> 9
      [] fn = "pack_files" -> 10
      [] fn = "sqfs_writer_finish" -> 11

\* fn was called and has succeeded before the k-th call
DoneBefore(fns, k) == \E i \in 1..(k - 1) : calls[i].fn \in fns /\ calls[i].ok

\* the k-th call is not fn, or one of fns has succeeded before it
Needs(k, fn, fns) == calls[k].fn = fn => DoneBefore(fns, k)

\* C9: the calls of main come in the order tree construction, owner
\* override, fstree_post_process, pack_files, sqfs_writer_finish, each
\* after the one before it has succeeded, and nothing is called after a
\* call that failed.
C9_StagesInOrder ==
    /\ \A i, j \in 1..Len(calls) :
          i < j => calls[i].ok /\ StageRank(calls[i].fn) < StageRank(calls[j].fn)
    /\ \A k \in 1..Len(calls) :
          /\ Needs(k, "override_owner_dfs", {"fstree_from_dir", "read_fstree"})
          /\ Needs(k, "fstree_post_process", {"fstree_from_dir", "read_fstree"})
          /\ calls[k].fn = "fstree_post_process" /\ (opt.force_uid \/ opt.force_gid) =>
                DoneBefore({"override_owner_dfs"}, k)
          /\ Needs(k, "pack_files", {"fstree_post_process"})
          /\ Needs(k, "sqfs_writer_finish", {"pack_files"})
    /\ pc \in {"finish", "out", "exit"} \/ calls = << >>
          \/ LastCall(calls).fn # "sqfs_writer_finish"

\* main has run through every stage
C9_Witness ==
    /\ pc = "exit"
    /\ Len(calls) = 12
    /\ \A k \in 1..12 : calls[k].ok
    /\ calls[7].fn = "override_owner_dfs" /\ calls[8].fn = "fstree_post_process"
    /\ calls[11].fn = "pack_files" /\ calls[12].fn = "sqfs_writer_finish"

\* ------------------------------------------------- C10

\* sqfs_writer_init has succeeded and a later call has failed
FailedAfterInit ==
    /\ calls # << >> /\ calls[1].ok
    /\ \E k \in 2..Len(calls) : ~calls[k].ok

\* every stage has succeeded, sqfs_writer_finish included
AllSucceeded ==
    /\ calls # << >>
    /\ \A k \in 1..Len(calls) : calls[k].ok
    /\ LastCall(calls).fn = "sqfs_writer_finish"

\* C10: when a stage after the initialisation of the writer has failed,
\* main calls sqfs_writer_cleanup once, with EXIT_FAILURE, and returns
\* EXIT_FAILURE; the cleanup gets EXIT_SUCCESS only when every stage has
\* succeeded; it is never called twice.
C10_CleanupOnFailure ==
    /\ Len(cleanup) <= 1
    /\ pc = "exit" /\ FailedAfterInit =>
          cleanup = <<"EXIT_FAILURE">> /\ exitcode = "EXIT_FAILURE"
    /\ cleanup = <<"EXIT_SUCCESS">> => AllSucceeded /\ exitcode = "EXIT_SUCCESS"
    /\ pc = "exit" /\ AllSucceeded => cleanup = <<"EXIT_SUCCESS">>
    /\ pc = "exit" /\ calls # << >> /\ calls[1].ok => Len(cleanup) = 1

\* pack_files has failed and main has returned
C10_Witness ==
    /\ pc = "exit"
    /\ LastCall(calls).fn = "pack_files" /\ ~LastCall(calls).ok
    /\ cleanup = <<"EXIT_FAILURE">>
    /\ exitcode = "EXIT_FAILURE"

\* ------------------------------------------------- the input stream

\* a + b
BigAdd(a, b) ==
    LET l == a.lo + b.lo
    IN  Big(a.hi + b.hi + l \div Limb, l % Limb)

\* a - b, for a >= b
BigSub(a, b) ==
    IF a.lo >= b.lo THEN Big(a.hi - b.hi, a.lo - b.lo)
    ELSE Big(a.hi - b.hi - 1, a.lo + Limb - b.lo)

BigGE(a, b) == ~BigGT(b, a)

BigMin(a, b) == IF BigGT(a, b) THEN b ELSE a

\* 0x7FFFFFFF
S32Max == Big(Limb \div 2 - 1, Limb - 1)

\* the bits of the sqfs_s32 -1
MinusOne == Big(Limb - 1, Limb - 1)

\* a sqfs_s32, kept as its 32 bits, is negative
IsNegative(v) == v.hi >= Limb \div 2

\* An istream_t is modelled by
\*   chunks         what the refills of the buffer still to come will bring,
\*                  each at least one byte
\*   base           the offset in the input of the first byte of the buffer
\*   buffer_used, buffer_offset   as in the struct
\*   fail_at        the number of the refill that fails (0: none does)
\*   refills        the refills asked for so far
\* A byte is known by its offset in the input.

\* istream_precache: what is left of the buffer is moved to its front and
\* the source is asked for more; nothing more is the end of the input
istream_precache(s) ==
    LET left == IF BigGT(s.buffer_used, s.buffer_offset)
                THEN BigSub(s.buffer_used, s.buffer_offset) ELSE Small(0)
        moved == [s EXCEPT !.base = BigAdd(s.base, BigSub(s.buffer_used, left)),
                           !.buffer_used = left,
                           !.buffer_offset = Small(0),
                           !.refills = @ + 1]
    IN  IF s.fail_at = s.refills + 1 THEN [ret |-> "-1", strm |-> moved]
        ELSE IF s.chunks = << >> THEN [ret |-> "0", strm |-> moved]
        ELSE [ret |-> "0",
              strm |-> [moved EXCEPT !.buffer_used = BigAdd(left, Head(s.chunks)),
                                     !.chunks = Tail(s.chunks)]]

\* the refill at the head of the loops of istream_read, istream_skip and
\* istream_splice: only when the buffer is used up
Refill(s) ==
    IF BigGE(s.buffer_offset, s.buffer_used) THEN istream_precache(s)
    ELSE [ret |-> "0", strm |-> s]

\* diff = buffer_used - buffer_offset; if (diff > size) diff = size;
Diff(s, size) == BigMin(BigSub(s.buffer_used, s.buffer_offset), size)

\* the bytes of the buffer from buffer_offset on, diff of them
Range(s, diff) == [from |-> BigAdd(s.base, s.buffer_offset), len |-> diff]

\* buffer_offset += diff
Consume(s, diff) == [s EXCEPT !.buffer_offset = BigAdd(@, diff)]

\* memcpy to the caller's memory
Copy(o, r) == [o EXCEPT !.data = Append(@, r)]

RECURSIVE ReadLoop(_, _, _, _)
\* the while loop of istream_read; total is a sqfs_s32
ReadLoop(s, o, size, total) ==
    IF size = Small(0) THEN [ret |-> total, strm |-> s, out |-> o]
    ELSE LET r == Refill(s)
             diff == Diff(r.strm, size)
         IN  IF r.ret # "0" THEN [ret |-> MinusOne, strm |-> r.strm, out |-> o]
             ELSE IF r.strm.buffer_used = Small(0)
             THEN [ret |-> total, strm |-> r.strm, out |-> o]
             ELSE ReadLoop(Consume(r.strm, diff), Copy(o, Range(r.strm, diff)),
                           BigSub(size, diff), ToU32(BigAdd(total, diff)))

\* istream_read with the 0x7FFFFFFF limit left out
IstreamRead_NoLimit(s, o, size) == ReadLoop(s, o, size, Small(0))

istream_read(s, o, size) ==
    ReadLoop(s, o, IF BigGT(size, S32Max) THEN S32Max ELSE size, Small(0))

RECURSIVE SkipLoop(_, _)
\* the while loop of istream_skip
SkipLoop(s, size) ==
    IF size = Small(0) THEN [ret |-> Small(0), strm |-> s]
    ELSE LET r == Refill(s)
             diff == Diff(r.strm, size)
         IN  IF r.ret # "0" THEN [ret |-> MinusOne, strm |-> r.strm]
             ELSE IF r.strm.buffer_used = Small(0)
             THEN [ret |-> MinusOne, strm |-> r.strm]
             ELSE SkipLoop(Consume(r.strm, diff), BigSub(size, diff))

istream_skip(s, size) == SkipLoop(s, size)

\* ostream_append: the append number fail_at fails and appends nothing
ostream_append(o, r) ==
    IF o.fail_at = o.appends + 1
    THEN [ret |-> "-1", out |-> [o EXCEPT !.appends = @ + 1]]
    ELSE [ret |-> "0", out |-> [o EXCEPT !.appends = @ + 1, !.data = Append(@, r)]]

RECURSIVE SpliceLoop(_, _, _, _)
\* the while loop of istream_splice
SpliceLoop(s, o, size, total) ==
    IF size = Small(0) THEN [ret |-> total, strm |-> s, out |-> o]
    ELSE LET r == Refill(s)
             diff == Diff(r.strm, size)
             a == ostream_append(o, Range(r.strm, diff))
         IN  IF r.ret # "0" THEN [ret |-> MinusOne, strm |-> r.strm, out |-> o]
             ELSE IF r.strm.buffer_used = Small(0)
             THEN [ret |-> total, strm |-> r.strm, out |-> o]
             ELSE IF a.ret # "0"
             THEN [ret |-> MinusOne, strm |-> r.strm, out |-> a.out]
             ELSE SpliceLoop(Consume(r.strm, diff), a.out,
                             BigSub(size, diff), ToU32(BigAdd(total, diff)))

\* istream_splice with `if' for `while': it appends once, what the buffer
\* holds
IstreamSplice_IfForWhile(s, o, size) ==
    LET n == IF BigGT(size, S32Max) THEN S32Max ELSE size
        r == Refill(s)
        once == IF r.ret = "0" /\ r.strm.buffer_used # Small(0)
                THEN Diff(r.strm, n) ELSE n
    IN  SpliceLoop(s, o, once, Small(0))

istream_splice(s, o, size) ==
    SpliceLoop(s, o, IF BigGT(size, S32Max) THEN S32Max ELSE size, Small(0))

\* ------------------------------------------------- calls on one stream

\* the most calls made on one stream
MaxCalls == 2

\* 2^31
TwoGiB == Big(Limb \div 2, 0)

\* what a refill of the buffer may bring
ChunkSizes == {Small(1), Small(2), S32Max, TwoGiB}

\* the inputs: what the refills bring until the end of the input
ChunkLists ==
    { << >>, <<Small(1)>>, <<Small(2)>>, <<Small(2), Small(1)>>,
      <<Small(1), Small(1)>>, <<S32Max>>, <<TwoGiB>>, <<Small(1), TwoGiB>>,
      <<TwoGiB, Small(2)>>, <<S32Max, Small(1)>> }

\* a stream nothing was read from yet
NewStream(chunks, fail_at) == [NoStrm EXCEPT !.chunks = chunks, !.fail_at = fail_at]

\* the size arguments tried; istream_splice takes a sqfs_u32
Sizes ==
    { Small(0), Small(1), Small(2), Small(3), S32Max, TwoGiB,
      Big(Limb - 1, Limb - 1) }

\* one call: the operation, its size argument and result, the stream and
\* the number of ranges copied before it
CallRecord(op, size, ret, s0, o0) ==
    [pc |-> "call", op |-> op, size |-> size, ret |-> ret, s0 |-> s0,
     d0 |-> Len(o0.data), n |-> IF io.pc = "call" THEN io.n + 1 ELSE 0]

FirstCall == [pc |-> "call", op |-> "none", size |-> Small(0), ret |-> Small(0),
              s0 |-> NoStrm, d0 |-> 0, n |-> 0]

IstreamRead ==
    /\ io.pc = "call" /\ io.n < MaxCalls
    /\ \E size \in Sizes :
          LET r == istream_read(strm, out, size)
          IN  /\ strm' = r.strm
              /\ out' = r.out
              /\ io' = CallRecord("read", size, r.ret, strm, out)
    /\ UNCHANGED <<pk, lineVars, streamVars, mainVars, bpVars>>

IstreamSkip ==
    /\ io.pc = "call" /\ io.n < MaxCalls
    /\ \E size \in Sizes :
          LET r == istream_skip(strm, size)
          IN  /\ strm' = r.strm
              /\ io' = CallRecord("skip", size, r.ret, strm, out)
    /\ UNCHANGED <<out, pk, lineVars, streamVars, mainVars, bpVars>>

IstreamSplice ==
    /\ io.pc = "call" /\ io.n < MaxCalls
    /\ \E size \in Sizes :
          LET r == istream_splice(strm, out, size)
          IN  /\ strm' = r.strm
              /\ out' = r.out
              /\ io' = CallRecord("splice", size, r.ret, strm, out)
    /\ UNCHANGED <<pk, lineVars, streamVars, mainVars, bpVars>>

NextCalls == IstreamRead \/ IstreamSkip \/ IstreamSplice

\* ------------------------------------------------- pack_files

\* the most regular files in fs->files
MaxFiles == 2

\* A regular file of fs->files:
\*   chunks      its content, as the refills of the stream opened on it
\*   input_file  data.file.input_file is not NULL
\*   fail        what goes wrong with it ("none": nothing)
FileNode(chunks, input_file, fail) ==
    [chunks |-> chunks, input_file |-> input_file, fail |-> fail]

\* what can go wrong while one file is packed
FailKinds ==
    {"get_path", "open", "get_size", "istream", "ostream", "read", "append", "flush"}

\* the files tried: contents of zero to four bytes, and a file of three
\* bytes for everything that can go wrong
FileNodes ==
    {FileNode(c, TRUE, "none") :
        c \in { << >>, <<Small(1)>>, <<Small(2), Small(1)>>, <<Small(3)>>,
                <<Small(1), Small(3)>> }}
    \cup {FileNode(<<Small(2), Small(1)>>, FALSE, "none")}
    \cup {FileNode(<<Small(2), Small(1)>>, k = "open", k) : k \in FailKinds}

FileLists == UNION {[1..n -> FileNodes] : n \in 0..MaxFiles}

RECURSIVE SumChunks(_)
\* the size of the file
SumChunks(cs) == IF cs = << >> THEN Small(0) ELSE BigAdd(Head(cs), SumChunks(Tail(cs)))

\* pack_files at its start. packdir: "none" for NULL, else whether chdir
\* works
PackStart(files, block_size, no_tail_packing, packdir) ==
    [pc |-> "chdir", files |-> files, i |-> 1, block_size |-> block_size,
     no_tail_packing |-> no_tail_packing, packdir |-> packdir,
     hnd |-> "uninit", in_open |-> FALSE, r |-> "0", ret |-> "pending", ev |-> << >>]

Event(what, arg) == [f |-> pk.i, what |-> what, arg |-> arg]

\* if (opt->packdir != NULL && chdir(opt->packdir) != 0) return -1;
PackChdir ==
    /\ pk.pc = "chdir"
    /\ pk' = IF pk.packdir = "fail"
             THEN [pk EXCEPT !.pc = "returned", !.ret = "-1"]
             ELSE [pk EXCEPT !.pc = "loop"]
    /\ UNCHANGED <<strm, out, io, lineVars, streamVars, mainVars, bpVars>>

\* the for loop has come to the end of fs->files: return 0
PackReturn ==
    /\ pk.pc = "loop"
    /\ pk.i > Len(pk.files)
    /\ pk' = [pk EXCEPT !.pc = "returned", !.ret = "0"]
    /\ UNCHANGED <<strm, out, io, lineVars, streamVars, mainVars, bpVars>>

\* the head of the loop body: the path of the node, then pack_file is
\* called
PackNode ==
    /\ pk.pc = "loop"
    /\ pk.i <= Len(pk.files)
    /\ LET n == pk.files[pk.i]
       IN  pk' = IF ~n.input_file /\ n.fail = "get_path"
                 THEN [pk EXCEPT !.pc = "returned", !.ret = "-1"]
                 ELSE [pk EXCEPT !.pc = "open", !.hnd = "uninit", !.in_open = FALSE,
                                 !.r = "0"]
    /\ UNCHANGED <<strm, out, io, lineVars, streamVars, mainVars, bpVars>>

\* pack_file up to the loop: the file is opened, its size asked for, the
\* input stream and the stream of the block processor are made
PackFileOpen ==
    /\ pk.pc = "open"
    /\ LET n == pk.files[pk.i]
           dont_fragment == pk.no_tail_packing
                            /\ BigGT(SumChunks(n.chunks), Small(pk.block_size))
           fail(e) == [pk EXCEPT !.pc = "done", !.r = "err", !.ev = @ \o e]
           opened == <<Event("open", "ok")>>
       IN  /\ pk' =
                IF n.fail = "open"
                THEN fail(<<Event("open", "failed")>>)
                ELSE IF n.fail = "get_size"
                THEN [fail(opened) EXCEPT !.hnd = "open"]
                ELSE IF n.fail = "istream"
                THEN [fail(opened) EXCEPT !.hnd = "open"]
                ELSE IF n.fail = "ostream"
                THEN [fail(opened) EXCEPT !.hnd = "open", !.in_open = TRUE]
                ELSE [pk EXCEPT !.pc = "splice", !.hnd = "open", !.in_open = TRUE,
                                !.ev = @ \o opened
                                         \o <<Event("create_ostream", dont_fragment)>>]
           /\ strm' = NewStream(n.chunks, IF n.fail = "read" THEN 2 ELSE 0)
           /\ out' = [NoOut EXCEPT !.fail_at = IF n.fail = "append" THEN 2 ELSE 0]
           /\ io' = [FirstCall EXCEPT !.pc = "pack"]
    /\ UNCHANGED <<lineVars, streamVars, mainVars, bpVars>>

\* one turn of do { ret = sqfs_istream_splice(in, out, block_size); }
\* while (ret > 0);
PackSplice ==
    /\ pk.pc = "splice"
    /\ LET r == istream_splice(strm, out, Small(pk.block_size))
       IN  /\ strm' = r.strm
           /\ out' = r.out
           /\ io' = [CallRecord("splice", Small(pk.block_size), r.ret, strm, out)
                        EXCEPT !.pc = "pack"]
           /\ pk' = IF IsNegative(r.ret)
                    THEN [pk EXCEPT !.pc = "done", !.r = "err",
                                    !.ev = Append(@, Event("splice", "failed"))]
                    ELSE IF r.ret = Small(0)
                    THEN [pk EXCEPT !.pc = "flush",
                                    !.ev = Append(@, Event("splice", "end"))]
                    ELSE [pk EXCEPT !.ev = Append(@, Event("splice", "ok"))]
    /\ UNCHANGED <<lineVars, streamVars, mainVars, bpVars>>

\* if (ret == 0) ret = out->flush(out);
PackFlush ==
    /\ pk.pc = "flush"
    /\ out' = [out EXCEPT !.flushes = @ + 1]
    /\ pk' = IF pk.files[pk.i].fail = "flush"
             THEN [pk EXCEPT !.pc = "done", !.r = "err",
                             !.ev = Append(@, Event("flush", "failed"))]
             ELSE [pk EXCEPT !.pc = "done", !.ev = Append(@, Event("flush", "ok"))]
    /\ UNCHANGED <<strm, io, lineVars, streamVars, mainVars, bpVars>>

\* pack_files that goes on with the next file whatever pack_file returned
PackFileDone_IgnoreFailure ==
    /\ pk.pc = "done"
    /\ \E closed \in (IF pk.in_open THEN {"in"}
                      ELSE IF pk.hnd = "open" THEN {"hnd"}
                      ELSE {"nothing", "another handle"}) :
          pk' = [pk EXCEPT !.pc = "loop", !.i = @ + 1,
                           !.ev = Append(@, Event("close", closed))]
    /\ UNCHANGED <<strm, out, io, lineVars, streamVars, mainVars, bpVars>>

\* done: of pack_file, and what pack_files does with the result. When the
\* file could not be opened, hnd is closed without ever having been set:
\* the close fails, or closes whatever handle the value happens to name
PackFileDone ==
    /\ pk.pc = "done"
    /\ \E closed \in (IF pk.in_open THEN {"in"}
                      ELSE IF pk.hnd = "open" THEN {"hnd"}
                      ELSE {"nothing", "another handle"}) :
          pk' = IF pk.r # "0"
                THEN [pk EXCEPT !.pc = "returned", !.ret = "-1",
                                !.ev = Append(@, Event("close", closed))]
                ELSE [pk EXCEPT !.pc = "loop", !.i = @ + 1,
                                !.ev = Append(@, Event("close", closed))]
    /\ UNCHANGED <<strm, out, io, lineVars, streamVars, mainVars, bpVars>>

NextPack ==
    \/ PackChdir \/ PackReturn \/ PackNode \/ PackFileOpen
    \/ PackSplice \/ PackFlush \/ PackFileDone

\* ------------------------------------------------- the stream and pack_files

\* the starts of pack_files: every list of files with two block sizes, and
\* one list with every setting of packdir and no_tail_packing
PackStarts ==
    {PackStart(fl, b, FALSE, "none") : fl \in FileLists, b \in {1, 2}}
    \cup {PackStart(<<FileNode(<<Small(2), Small(1)>>, TRUE, "none")>>, 2, nt, d) :
             nt \in BOOLEAN, d \in {"none", "ok", "fail"}}

NextIO == NextCalls \/ NextPack

\* either calls on one stream, or pack_files on a list of files
InitIO ==
    /\ \/ /\ strm \in {NewStream(c, f) : c \in ChunkLists, f \in 0..2}
          /\ out \in {[NoOut EXCEPT !.fail_at = g] : g \in 0..2}
          /\ io = FirstCall
          /\ pk = NoPk
       \/ /\ strm = NoStrm
          /\ out = NoOut
          /\ io = [FirstCall EXCEPT !.pc = "pack"]
          /\ pk \in PackStarts
    /\ bp = NoBp
    /\ line = << >> /\ comp = NoComp /\ basepath = NullStr /\ res = Pending
    /\ lpc = "idle"
    /\ file = << >> /\ fp = 0 /\ line_num = 0 /\ handled = << >>
    /\ fs = << >> /\ sret = "idle"
    /\ pc = "idle" /\ opt = NoOptions /\ calls = << >>
    /\ status = "EXIT_FAILURE" /\ cleanup = << >> /\ exitcode = "none"
    /\ tree = NoTree

SpecIO == InitIO /\ [][NextIO]_vars

\* ------------------------------------------------- C11

\* the read position of the stream: the offset in the input of the next
\* byte
Pos(s) == BigAdd(s.base, s.buffer_offset)

\* the bytes of the input not consumed yet
Remaining(s) == BigAdd(BigSub(s.buffer_used, s.buffer_offset), SumChunks(s.chunks))

AtEnd(s) == Remaining(s) = Small(0)

RECURSIVE Covers(_, _, _)
\* the ranges, one after the other, are the len bytes of the input from
\* offset from on, in order
Covers(rs, from, len) ==
    IF rs = << >> THEN len = Small(0)
    ELSE /\ Head(rs).from = from
         /\ BigGE(len, Head(rs).len)
         /\ Covers(Tail(rs), BigAdd(from, Head(rs).len), BigSub(len, Head(rs).len))

\* what the last call has copied out of the stream
Copied == SubSeq(out.data, io.d0 + 1, Len(out.data))

\* the last call was op and has not failed
Returned(op) == io.op = op /\ ~IsNegative(io.ret)

\* the last call has moved exactly the next n bytes and has returned n
Moved(n) ==
    /\ io.ret = n
    /\ Covers(Copied, Pos(io.s0), n)
    /\ Pos(strm) = BigAdd(Pos(io.s0), n)

\* the file pack_file is at work on
PackedFile == pk.files[pk.i]

InPackFile == pk.pc \in {"splice", "flush", "done"}

\* pack_file: everything appended is a start of the file; the stream of the
\* block processor is flushed at most once, and only with the whole file
\* appended, the end of the input reached and no error before; when the
\* loop is left without error all of this has been done
PackFileWhole ==
    InPackFile =>
        /\ out.flushes <= 1
        /\ \E n \in {Pos(strm)} : Covers(out.data, Small(0), n)
        /\ out.flushes = 1 \/ pk.pc = "flush" =>
              /\ AtEnd(strm)
              /\ Covers(out.data, Small(0), SumChunks(PackedFile.chunks))
              /\ \A k \in 1..Len(pk.ev) :
                    pk.ev[k].f = pk.i /\ pk.ev[k].what = "splice" => pk.ev[k].arg # "failed"
        /\ pk.pc = "done" =>
              (out.flushes = 1 <=> pk.r = "0" \/ PackedFile.fail = "flush")

RefillFailed ==
    /\ io.s0.fail_at > io.s0.refills
    /\ strm.refills >= io.s0.fail_at

\* the size istream_read goes by
ReadSize == BigMin(io.size, S32Max)

\* C14: istream_read(size) returns min(size, 2^31 - 1, bytes remaining) as a
\* non-negative 32 bit count, has copied exactly these next bytes in order
\* and has advanced the read position by as much; it returns less than
\* min(size, 2^31 - 1) only at the end of the input and -1 only when a
\* refill of the buffer has failed. istream_skip(size) returns 0 or -1: 0
\* only when at least size bytes remained, and then the read position has
\* advanced by exactly size; -1 when fewer than size bytes remained or when
\* a refill has failed. After every call buffer_offset <= buffer_used.
C14_ReadSkipExact ==
    /\ io.op = "read" =>
          /\ io.ret = MinusOne <=> RefillFailed
          /\ io.ret # MinusOne =>
                /\ ~IsNegative(io.ret)
                /\ Moved(BigMin(ReadSize, Remaining(io.s0)))
                /\ BigGT(ReadSize, io.ret) => AtEnd(strm)
    /\ io.op = "skip" =>
          /\ io.ret \in {Small(0), MinusOne}
          /\ io.ret = Small(0) =>
                /\ BigGE(Remaining(io.s0), io.size)
                /\ Pos(strm) = BigAdd(Pos(io.s0), io.size)
          /\ io.ret = MinusOne <=>
                RefillFailed \/ BigGT(io.size, Remaining(io.s0))
    /\ io.op # "none" => BigGE(strm.buffer_used, strm.buffer_offset)

\* of three bytes that come in refills of two and of one, the first was
\* skipped; istream_read(3) then has copied the other two, from both
\* refills, has returned 2 and is at the end of the input
C14_Witness ==
    /\ io.pc = "call" /\ io.op = "read" /\ io.n = 2
    /\ io.size = Small(3) /\ io.ret = Small(2)
    /\ Pos(io.s0) = Small(1)
    /\ out.data = << [from |-> Small(1), len |-> Small(1)],
                     [from |-> Small(2), len |-> Small(1)] >>
    /\ AtEnd(strm)

\* ------------------------------------------------- C13

\* the numbers of the events of file f that are a what
EventsOf(f, what) == {k \in 1..Len(pk.ev) : pk.ev[k].f = f /\ pk.ev[k].what = what}

\* file f was opened, read to its end, flushed and closed
Packed(f) ==
    /\ \E k \in EventsOf(f, "flush") : pk.ev[k].arg = "ok"
    /\ EventsOf(f, "close") # {}

\* pack_file is over for file f and has failed
Failed(f) ==
    /\ EventsOf(f, "close") # {}
    /\ \A k \in EventsOf(f, "flush") : pk.ev[k].arg # "ok"

\* C13: pack_files hands the files to the block processor in the order of
\* fs->files, each at most once, one file wholly, its flush included,
\* before the next is opened; when pack_file fails for a file pack_files
\* returns -1 at once and no later file is opened or submitted; it returns
\* 0 only with every file packed.
C13_FilesInOrderStopAtFailure ==
    pk.pc # "idle" =>
        /\ \A j, k \in 1..Len(pk.ev) : j < k => pk.ev[j].f <= pk.ev[k].f
        /\ \A f \in 1..Len(pk.files) :
              /\ Cardinality(EventsOf(f, "open")) <= 1
              /\ Cardinality(EventsOf(f, "create_ostream")) <= 1
              /\ Cardinality(EventsOf(f, "flush")) <= 1
              /\ EventsOf(f, "open") # {} => \A g \in 1..(f - 1) : Packed(g)
              /\ Failed(f) =>
                    /\ pk.pc = "returned" /\ pk.ret = "-1"
                    /\ pk.ev[Len(pk.ev)].f = f /\ pk.ev[Len(pk.ev)].what = "close"
        /\ pk.pc = "returned" /\ pk.ret = "0" => \A f \in 1..Len(pk.files) : Packed(f)

\* of two files the first could not be read to its end: pack_files has
\* returned -1 and the second was never opened
C13_Witness ==
    /\ pk.pc = "returned" /\ pk.ret = "-1"
    /\ Len(pk.files) = 2
    /\ pk.files[1].fail = "read" /\ pk.files[2].fail = "none"
    /\ \E k \in EventsOf(1, "splice") : pk.ev[k].arg = "failed"
    /\ Failed(1)
    /\ EventsOf(2, "open") = {}

\* ------------------------------------------------- the block processor

\* struct sqfs_block_processor_t, as far as the order of the blocks goes:
\*   queue        the FIFO of the blocks waiting for a worker
\*   done         the completion list, kept in the order of the sequence
\*                numbers
\*   backlog      the blocks handed in and not written yet
\*   enqueue_id, dequeue_id, num_workers, max_backlog   as in the struct
\* and, beside the struct,
\*   work         the block each worker is compressing (NoBlock: none)
\*   blocks       how many blocks the producer hands in
\*   written      the blocks written to the output, in the order written
\* A block is known by data, its number in the order of submission.

MaxWorkers == 2

MaxBlocks == 4

MaxBacklog == 3

NoBlock == [sequence_number |-> -1, data |-> 0]

BlockStart(num_workers, max_backlog, blocks) ==
    [pc |-> "run", num_workers |-> num_workers, max_backlog |-> max_backlog,
     blocks |-> blocks, queue |-> << >>, done |-> << >>, backlog |-> 0,
     enqueue_id |-> 0, dequeue_id |-> 0,
     work |-> [w \in 1..num_workers |-> NoBlock], written |-> << >>]

RECURSIVE StoreCompleted(_, _)
\* the block goes into the completion list before the first block with a
\* greater sequence number
StoreCompleted(done, b) ==
    IF done = << >> THEN <<b>>
    ELSE IF Head(done).sequence_number > b.sequence_number THEN <<b>> \o done
    ELSE <<Head(done)>> \o StoreCompleted(Tail(done), b)

\* the producer hands in the next block: it gets the next sequence number
\* and goes to the end of the queue; the producer waits while the backlog
\* is full
BpEnqueue ==
    /\ bp.pc = "run"
    /\ bp.enqueue_id < bp.blocks
    /\ bp.backlog < bp.max_backlog
    /\ bp' = [bp EXCEPT
                !.queue = Append(@, [sequence_number |-> bp.enqueue_id,
                                     data |-> bp.enqueue_id + 1]),
                !.enqueue_id = @ + 1,
                !.backlog = @ + 1]
    /\ UNCHANGED <<lineVars, streamVars, mainVars, ioVars>>

\* a worker that has nothing to do takes the block at the head of the queue
BpWorkerTake ==
    /\ bp.pc = "run"
    /\ bp.queue # << >>
    /\ \E w \in 1..bp.num_workers :
          /\ bp.work[w] = NoBlock
          /\ bp' = [bp EXCEPT !.work[w] = Head(bp.queue), !.queue = Tail(@)]
    /\ UNCHANGED <<lineVars, streamVars, mainVars, ioVars>>

\* a worker is through with its block and puts it on the completion list
BpWorkerDone ==
    /\ bp.pc = "run"
    /\ \E w \in 1..bp.num_workers :
          /\ bp.work[w] # NoBlock
          /\ bp' = [bp EXCEPT !.done = StoreCompleted(@, bp.work[w]),
                              !.work[w] = NoBlock]
    /\ UNCHANGED <<lineVars, streamVars, mainVars, ioVars>>

\* a producer that writes the first block of the completion list whatever
\* its sequence number
BpDequeue_AnyCompleted ==
    /\ bp.pc = "run"
    /\ bp.done # << >>
    /\ bp' = [bp EXCEPT !.written = Append(@, Head(bp.done).data),
                        !.done = Tail(@),
                        !.dequeue_id = @ + 1,
                        !.backlog = @ - 1]
    /\ UNCHANGED <<lineVars, streamVars, mainVars, ioVars>>

\* the producer takes the completed block whose sequence number is
\* dequeue_id off the completion list, writes it and counts dequeue_id up
BpDequeue ==
    /\ bp.pc = "run"
    /\ bp.done # << >>
    /\ Head(bp.done).sequence_number = bp.dequeue_id
    /\ bp' = [bp EXCEPT !.written = Append(@, Head(bp.done).data),
                        !.done = Tail(@),
                        !.dequeue_id = @ + 1,
                        !.backlog = @ - 1]
    /\ UNCHANGED <<lineVars, streamVars, mainVars, ioVars>>

\* the producer has handed in everything and has waited for backlog == 0
BpFinish ==
    /\ bp.pc = "run"
    /\ bp.enqueue_id = bp.blocks
    /\ bp.backlog = 0
    /\ bp' = [bp EXCEPT !.pc = "finished"]
    /\ UNCHANGED <<lineVars, streamVars, mainVars, ioVars>>

NextBlock == BpEnqueue \/ BpWorkerTake \/ BpWorkerDone \/ BpDequeue \/ BpFinish

InitBlock ==
    /\ bp \in {BlockStart(n, m, b) :
                  n \in 1..MaxWorkers, m \in 1..MaxBacklog, b \in 0..MaxBlocks}
    /\ strm = NoStrm /\ out = NoOut /\ io = NoIo /\ pk = NoPk
    /\ line = << >> /\ comp = NoComp /\ basepath = NullStr /\ res = Pending
    /\ lpc = "idle"
    /\ file = << >> /\ fp = 0 /\ line_num = 0 /\ handled = << >>
    /\ fs = << >> /\ sret = "idle"
    /\ pc = "idle" /\ opt = NoOptions /\ calls = << >>
    /\ status = "EXIT_FAILURE" /\ cleanup = << >> /\ exitcode = "none"
    /\ tree = NoTree

SpecBlock == InitBlock /\ [][NextBlock]_vars

\* ------------------------------------------------- C12

\* where block number d is: every place that holds it
PlacesOf(d) ==
    {k \in 1..Len(bp.queue) : bp.queue[k].data = d}
    \cup {10 + w : w \in {v \in 1..bp.num_workers : bp.work[v].data = d}}
    \cup {20 + k : k \in {j \in 1..Len(bp.done) : bp.done[j].data = d}}
    \cup {30 + k : k \in {j \in 1..Len(bp.written) : bp.written[j] = d}}

\* C12: the blocks written are the blocks handed in, in the order they were
\* handed in, whatever the order the workers complete them in and however
\* many workers there are: at every moment the output is the first
\* dequeue_id blocks of the submission sequence, every block handed in is
\* in exactly one place (waiting, with a worker, completed or written), and
\* when the producer has finished the output is the whole submission
\* sequence.
C12_WrittenInSubmissionOrder ==
    bp.pc # "idle" =>
        /\ bp.written = [k \in 1..bp.dequeue_id |-> k]
        /\ bp.dequeue_id <= bp.enqueue_id
        /\ bp.backlog = bp.enqueue_id - bp.dequeue_id
        /\ \A d \in 1..bp.enqueue_id : Cardinality(PlacesOf(d)) = 1
        /\ bp.pc = "finished" => bp.written = [k \in 1..bp.blocks |-> k]

\* two workers: the third block was completed before the second, which a
\* worker still holds; the producer has written the first and holds the
\* third back
C12_Witness ==
    /\ bp.pc = "run" /\ bp.num_workers = 2
    /\ bp.written = <<1>>
    /\ bp.dequeue_id = 1
    /\ \E w \in 1..2 : bp.work[w].data = 2
    /\ bp.done # << >> /\ Head(bp.done).data = 3

====
